---------------------------- MODULE Spec2Model ----------------------------
(***************************************************************************)
(* Model of the news pipeline of the sonce repository:                     *)
(*   tools/validate-news.mjs  (toSlug, truncate, normalizeTags,            *)
(*                             parseFrontmatter, validateFrontmatter,      *)
(*                             buildIndexEntry, main)                      *)
(*   tools/news-cli.mjs       (generateSlug, rebuildIndex), which the      *)
(*                             source tree keeps in the same file.         *)
(*   tools/import_incoming_zip.py, the archive importer, which the source  *)
(*                             tree does not hold (see its section).       *)
(*   run_watch_incoming.sh    (the polling loop around the importer)       *)
(*   sw.js                    (the fetch handler of the service worker)    *)
(*   news/performance.js      (optimizedFetch and its session cache)       *)
(*   unnamed/part_015         (MarkdownConverter.convert)                  *)
(*                                                                         *)
(* A text is a sequence of UTF-16 code units.  A code unit is written as   *)
(* the one-character string of its character when it is ASCII and as the   *)
(* string "U+XXXX" otherwise, so Len is JavaScript's String.length.        *)
(***************************************************************************)
EXTENDS Integers, Sequences, FiniteSets, TLC

VARIABLES
    dir,        \* content/news: file name -> what the file holds
    mode,       \* content/news: what the process may do with the directory
    index,      \* content/news/index.json, the persisted index document
    exitCode,   \* exit status of the last command
    report,     \* diagnostics the last command printed, per file
    lastRun,    \* the last command, "none" once the file system changed after it
    repeats,    \* how often in a row that command has run on the unchanged file system
    edits,      \* number of file-system changes made by the authors so far
    txt,        \* pure-function runs: the text the function is applied to
    out,        \* pure-function runs: the value it returned
    pc,         \* pure-function runs and import runs: which step has been taken
    bundles,    \* import runs: the batch, each bundle with the state it has reached
    rebuilds,   \* import runs: how often the index builder has been invoked
    uploads,    \* import runs: the image files of static/uploads/news
    procs,      \* watch loop: the number of importer processes that are running
    cache,      \* service worker: the cache sonce-cache-v3, request -> status of the stored response
    session,    \* page: the cache_ entries of sessionStorage, url -> data and timestamp
    now         \* page: Date.now(), in milliseconds

fsVars == <<dir, mode, index, exitCode, report, lastRun, repeats, edits>>
fnVars == <<txt, out, pc>>
imVars == <<bundles, rebuilds, uploads>>
envVars == <<procs, cache, session, now>>
vars == <<dir, mode, index, exitCode, report, lastRun, repeats, edits, txt, out, pc,
          bundles, rebuilds, uploads, procs, cache, session, now>>

---------------------------------------------------------------------------
(* Bounds of the model *)

\* longest free text drawn over SlugAlphabet
MaxLen == 3

\* most file-system changes the authors make in one behaviour
MaxEdits == 1

\* the count of repeated runs of one command stops here
MaxRepeats == 2

\* most words in the body of a unit of the excerpt runs
MaxWords == 3

---------------------------------------------------------------------------
(* Texts and the JavaScript String methods the tools use *)

\* a TLA+ string literal as a text, one code unit per character
T(s) == [i \in 1..Len(s) |-> SubSeq(s, i, i)]

LowerStr == "abcdefghijklmnopqrstuvwxyz"
UpperStr == "ABCDEFGHIJKLMNOPQRSTUVWXYZ"
DigitStr == "0123456789"

LowerSet == {SubSeq(LowerStr, i, i) : i \in 1..Len(LowerStr)}
UpperSet == {SubSeq(UpperStr, i, i) : i \in 1..Len(UpperStr)}
DigitSet == {SubSeq(DigitStr, i, i) : i \in 1..Len(DigitStr)}

\* the non-ASCII code units of the model
CCaronUpper == "U+010C"     \* LATIN CAPITAL LETTER C WITH CARON
CCaronLower == "U+010D"     \* LATIN SMALL LETTER C WITH CARON
Caron       == "U+030C"     \* COMBINING CARON
Ellipsis    == "U+2026"     \* HORIZONTAL ELLIPSIS
Backtick    == "U+0060"     \* GRAVE ACCENT, which a TLA+ string cannot hold

\* /\s/ of a JavaScript regular expression, on the code units of the model
SpaceSet == {" ", "\n", "\t"}
IsSpace(c) == c \in SpaceSet

\* [a-z0-9]
AlnumSet == LowerSet \cup DigitSet
IsAlnum(c) == c \in AlnumSet

\* String.prototype.toLowerCase
toLowerCase(s) ==
    LET lowerOf(c) ==
            IF c \in UpperSet
            THEN LET i == CHOOSE k \in 1..Len(UpperStr) : SubSeq(UpperStr, k, k) = c
                 IN  SubSeq(LowerStr, i, i)
            ELSE IF c = CCaronUpper THEN CCaronLower ELSE c
    IN  [i \in 1..Len(s) |-> lowerOf(s[i])]

RECURSIVE Flatten(_)
Flatten(ss) == IF ss = <<>> THEN <<>> ELSE Head(ss) \o Flatten(Tail(ss))

\* String.prototype.normalize('NFD'): canonical decomposition
normalizeNFD(s) ==
    Flatten([i \in 1..Len(s) |->
        IF s[i] = CCaronLower THEN <<"c", Caron>>
        ELSE IF s[i] = CCaronUpper THEN <<"C", Caron>>
        ELSE <<s[i]>>])

\* .replace(/[\u0300-\u036f]/g, '')
stripCombining(s) == SelectSeq(s, LAMBDA c : c # Caron)

\* String.prototype.trim
RECURSIVE trimStart(_)
trimStart(s) == IF s # <<>> /\ IsSpace(Head(s)) THEN trimStart(Tail(s)) ELSE s

RECURSIVE trimEnd(_)
trimEnd(s) ==
    IF s # <<>> /\ IsSpace(s[Len(s)]) THEN trimEnd(SubSeq(s, 1, Len(s) - 1)) ELSE s

trim(s) == trimEnd(trimStart(s))

\* .replace(/[class]+/g, rep): every run of code units of the class becomes rep
replaceRuns(s, class, rep) ==
    LET m == [i \in 1..Len(s) |->
                IF s[i] \notin class THEN s[i]
                ELSE IF i > 1 /\ s[i-1] \in class THEN "" ELSE rep]
    IN  SelectSeq(m, LAMBDA c : c # "")

\* .replace(/[^class]+/g, rep): every run of code units outside the class becomes rep
replaceRunsOutside(s, class, rep) ==
    LET m == [i \in 1..Len(s) |->
                IF s[i] \in class THEN s[i]
                ELSE IF i > 1 /\ s[i-1] \notin class THEN "" ELSE rep]
    IN  SelectSeq(m, LAMBDA c : c # "")

\* .replace(/(^-|-$)/g, ''): one leading hyphen, then one trailing hyphen
stripEdgeHyphens(s) ==
    LET a == IF s # <<>> /\ Head(s) = "-" THEN Tail(s) ELSE s
    IN  IF a # <<>> /\ a[Len(a)] = "-" THEN SubSeq(a, 1, Len(a) - 1) ELSE a

---------------------------------------------------------------------------
(* tools/validate-news.mjs *)

\* toSlug(input), for an input that is a string
toSlugNoStrip(input) ==
    replaceRunsOutside(stripCombining(normalizeNFD(toLowerCase(trim(input)))),
                       AlnumSet, "-")

toSlug(input) ==
    stripEdgeHyphens(
        replaceRunsOutside(stripCombining(normalizeNFD(toLowerCase(trim(input)))),
                           AlnumSet, "-"))

\* SLUG_RE.test(s):  /^[a-z0-9]+(?:-[a-z0-9]+)*$/
SLUG_RE(s) ==
    /\ s # <<>>
    /\ \A i \in 1..Len(s) : IsAlnum(s[i]) \/ s[i] = "-"
    /\ s[1] # "-" /\ s[Len(s)] # "-"
    /\ \A i \in 1..(Len(s) - 1) : ~(s[i] = "-" /\ s[i+1] = "-")

---------------------------------------------------------------------------
(* JavaScript values of the parsed header: a string, an array of strings, *)
(* or undefined                                                            *)

Str(s) == [t |-> "str", v |-> s]
Arr(a) == [t |-> "arr", v |-> a]
Undefined == [t |-> "undef", v |-> <<>>]

\* ToBoolean: arrays are truthy, the empty string and undefined are not
Truthy(x) == x.t = "arr" \/ (x.t = "str" /\ x.v # <<>>)

\* a || b
Or(a, b) == IF Truthy(a) THEN a ELSE b

\* Array.prototype.join(sep)
RECURSIVE join(_, _)
join(a, sep) ==
    IF a = <<>> THEN <<>>
    ELSE IF Len(a) = 1 THEN a[1]
    ELSE a[1] \o sep \o join(Tail(a), sep)

\* String(x)
String(x) ==
    CASE x.t = "str" -> x.v
      [] x.t = "arr" -> join(x.v, T(","))
      [] OTHER       -> T("undefined")

\* yaml.key
Get(yaml, key) == IF key \in DOMAIN yaml THEN yaml[key] ELSE Undefined

Min(S) == CHOOSE x \in S : \A y \in S : x <= y
Max(S) == CHOOSE x \in S : \A y \in S : x >= y

\* 1-based String.prototype.indexOf(pat, from); 0 when pat does not occur
indexOf(s, pat, from) ==
    LET C == {i \in from..(Len(s) - Len(pat) + 1) : SubSeq(s, i, i + Len(pat) - 1) = pat}
    IN  IF C = {} THEN 0 ELSE Min(C)

\* 1-based String.prototype.lastIndexOf(c); 0 when c does not occur
lastIndexOf(s, c) ==
    LET C == {i \in 1..Len(s) : s[i] = c}
    IN  IF C = {} THEN 0 ELSE Max(C)

startsWith(s, pat) == Len(s) >= Len(pat) /\ SubSeq(s, 1, Len(pat)) = pat
endsWith(s, pat) == Len(s) >= Len(pat) /\ SubSeq(s, Len(s) - Len(pat) + 1, Len(s)) = pat

\* String.prototype.split(c) for a one-unit separator
RECURSIVE split(_, _)
split(s, c) ==
    LET i == indexOf(s, <<c>>, 1)
    IN  IF i = 0 THEN <<s>>
        ELSE <<SubSeq(s, 1, i - 1)>> \o split(SubSeq(s, i + 1, Len(s)), c)

\* .map(v => v.trim())
mapTrim(a) == [i \in 1..Len(a) |-> trim(a[i])]

\* .filter(Boolean) on an array of strings
filterBoolean(a) == SelectSeq(a, LAMBDA v : v # <<>>)

\* value.slice(1, -1)
sliceInner(s) == SubSeq(s, 2, Len(s) - 1)

---------------------------------------------------------------------------
(* tools/validate-news.mjs: parseFrontmatter *)

\* one header line of parseFrontmatter: <<key, value>>, or <<>> when skipped
parseLine(line) ==
    LET idx == indexOf(line, <<":">>, 1)
        key == trim(SubSeq(line, 1, idx - 1))
        value == trim(SubSeq(line, idx + 1, Len(line)))
    IN  IF idx = 0 \/ key = <<>> THEN <<>>
        ELSE IF startsWith(value, <<"[">>) /\ endsWith(value, <<"]">>)
             THEN <<key, Arr(filterBoolean(mapTrim(split(sliceInner(value), ","))))>>
        ELSE IF \/ (startsWith(value, <<"\"">>) /\ endsWith(value, <<"\"">>))
                \/ (startsWith(value, <<"'">>) /\ endsWith(value, <<"'">>))
             THEN <<key, Str(sliceInner(value))>>
        ELSE <<key, Str(value)>>

\* the header object built from parsed lines; a later line overwrites an earlier one
objectOf(pairs) ==
    LET kept == {i \in 1..Len(pairs) : pairs[i] # <<>>}
        keys == {pairs[i][1] : i \in kept}
    IN  [k \in keys |-> pairs[Max({i \in kept : pairs[i][1] = k})][2]]

\* the text captured by /^---\n([\s\S]*?)\n---/, as <<matched, capture>>
matchFrontmatter(raw) ==
    LET close == IF startsWith(raw, T("---\n")) THEN indexOf(raw, T("\n---"), 5) ELSE 0
    IN  IF close = 0 THEN <<FALSE, <<>>>> ELSE <<TRUE, SubSeq(raw, 5, close - 1)>>

\* parseFrontmatter(raw): [ok |-> FALSE] stands for null
parseFrontmatterEmptyObject(raw) ==
    LET m == matchFrontmatter(raw)
        lines == split(m[2], "\n")
    IN  [ok |-> TRUE,
         yaml |-> IF ~m[1] THEN <<>>
                  ELSE objectOf([i \in 1..Len(lines) |-> parseLine(lines[i])])]

parseFrontmatter(raw) ==
    LET m == matchFrontmatter(raw)
        lines == split(m[2], "\n")
    IN  IF ~m[1] THEN [ok |-> FALSE, yaml |-> <<>>]
        ELSE [ok |-> TRUE, yaml |-> objectOf([i \in 1..Len(lines) |-> parseLine(lines[i])])]

\* the capture of /^---\n[\s\S]*?\n---\n\n([\s\S]*)/, '' when there is no match
bodyOf(markdown) ==
    LET close == IF startsWith(markdown, T("---\n"))
                 THEN indexOf(markdown, T("\n---\n\n"), 5) ELSE 0
    IN  IF close = 0 THEN <<>> ELSE SubSeq(markdown, close + 6, Len(markdown))

---------------------------------------------------------------------------
(* tools/validate-news.mjs: truncate, normalizeTags *)

\* the max that buildIndexEntry passes to truncate
EXCERPT_MAX == 180

\* truncate(text, max), for a text that is a string
truncateNoWordCut(s, max) ==
    IF Len(s) <= max THEN s ELSE trim(SubSeq(s, 1, max)) \o <<Ellipsis>>

truncate(s, max) ==
    IF Len(s) <= max THEN s
    ELSE LET sliced == SubSeq(s, 1, max)
             lastSpace == lastIndexOf(sliced, " ") - 1
             safeCut == IF 10 * lastSpace > 6 * max THEN lastSpace ELSE max
         IN  trim(SubSeq(sliced, 1, safeCut)) \o <<Ellipsis>>

\* normalizeTags(tags)
normalizeTags(tags) ==
    CASE ~Truthy(tags)  -> <<>>
      [] tags.t = "arr" -> filterBoolean(mapTrim(tags.v))
      [] OTHER          -> filterBoolean(mapTrim(split(tags.v, ",")))

---------------------------------------------------------------------------
(* Dates: new Date(text), Date.prototype.toISOString, as Node's V8 has them *)

IsDigit(c) == c \in DigitSet

DigitOf(n) == SubSeq(DigitStr, n + 1, n + 1)

\* the number written by the digits s[a..b]
NumAt(s, a, b) ==
    LET RECURSIVE val(_)
        digit(c) == (CHOOSE k \in 1..Len(DigitStr) : SubSeq(DigitStr, k, k) = c) - 1
        val(i) == IF i < a THEN 0 ELSE 10 * val(i - 1) + digit(s[i])
    IN  val(b)

\* String(n) for a natural number n
RECURSIVE NumText(_)
NumText(n) == IF n < 10 THEN <<DigitOf(n)>> ELSE NumText(n \div 10) \o <<DigitOf(n % 10)>>

Pad2(n) == <<DigitOf(n \div 10), DigitOf(n % 10)>>

\* DATE_RE.test(s):  /^\d{4}-\d{2}-\d{2}$/
DATE_RE(s) ==
    /\ Len(s) = 10
    /\ s[5] = "-" /\ s[8] = "-"
    /\ \A i \in {1, 2, 3, 4, 6, 7, 9, 10} : IsDigit(s[i])

DaysInMonth(y, m) ==
    IF m = 2 THEN (IF (y % 4 = 0 /\ y % 100 # 0) \/ y % 400 = 0 THEN 29 ELSE 28)
    ELSE IF m \in {4, 6, 9, 11} THEN 30 ELSE 31

\* days from 1970-01-01 to the civil date y-m-d (d may overflow the month)
DaysFromCivil(y, m, d) ==
    LET yy  == IF m <= 2 THEN y - 1 ELSE y
        era == yy \div 400
        yoe == yy - era * 400
        mp  == IF m > 2 THEN m - 3 ELSE m + 9
        doy == (153 * mp + 2) \div 5 + d - 1
        doe == yoe * 365 + yoe \div 4 - yoe \div 100 + doy
    IN  era * 146097 + doe - 719468

\* new Date(s): [ok |-> FALSE] is the Invalid Date.  A date-only ISO text is
\* UTC midnight; V8 accepts a day up to 31 in any month and carries the
\* overflow into the next month.  Every other text of the model has no
\* digit-led date in it and is an Invalid Date.
newDate(s) ==
    IF DATE_RE(s)
    THEN LET y == NumAt(s, 1, 4)
             m == NumAt(s, 6, 7)
             d == NumAt(s, 9, 10)
             over == d > DaysInMonth(y, m)
         IN  IF m \in 1..12 /\ d \in 1..31
             THEN [ok |-> TRUE, day |-> DaysFromCivil(y, m, d),
                   y |-> y,
                   m |-> IF over THEN m + 1 ELSE m,
                   d |-> IF over THEN d - DaysInMonth(y, m) ELSE d]
             ELSE [ok |-> FALSE]
    ELSE [ok |-> FALSE]

\* toIsoDate(d): date.toISOString().slice(0,10) of a valid date; toISOString
\* throws a RangeError on the Invalid Date
toIsoDate(d) ==
    LET date == newDate(String(d))
    IN  IF d.t # "undef" /\ date.ok
        THEN Pad2(date.y \div 100) \o Pad2(date.y % 100)
                \o <<"-">> \o Pad2(date.m) \o <<"-">> \o Pad2(date.d)
        ELSE String(Or(d, Str(<<>>)))

---------------------------------------------------------------------------
(* tools/validate-news.mjs: the patterns *)

\* FILENAME_RE.test(f):  /^(?:\d{8}|\d{4}-\d{2}-\d{2})-[a-z0-9]+(?:-[a-z0-9]+)*\.md$/
FILENAME_RE(f) ==
    LET n == IF Len(f) >= 8 /\ \A i \in 1..8 : IsDigit(f[i]) THEN 8
             ELSE IF Len(f) >= 10 /\ DATE_RE(SubSeq(f, 1, 10)) THEN 10 ELSE 0
    IN  /\ n > 0
        /\ Len(f) >= n + 5
        /\ f[n + 1] = "-"
        /\ endsWith(f, T(".md"))
        /\ SLUG_RE(SubSeq(f, n + 2, Len(f) - 3))

\* HERO_RE.test(s):  /^\/static\/uploads\/news\/\d{4}\/\d{2}\/[A-Za-z0-9._/-]+$/
HERO_RE(s) ==
    LET pre == T("/static/uploads/news/")
        n == Len(pre)
    IN  /\ startsWith(s, pre)
        /\ Len(s) >= n + 9
        /\ \A i \in (n + 1)..(n + 4) : IsDigit(s[i])
        /\ s[n + 5] = "/"
        /\ IsDigit(s[n + 6]) /\ IsDigit(s[n + 7])
        /\ s[n + 8] = "/"
        \* [A-Za-z0-9._/-]
        /\ \A i \in (n + 9)..Len(s) :
              s[i] \in LowerSet \cup UpperSet \cup DigitSet \cup {".", "_", "/", "-"}

---------------------------------------------------------------------------
(* tools/validate-news.mjs: buildIndexEntry *)

\* the least index >= p whose unit is outside the class, Len(s)+1 when none
runEnd(s, p, class) == Min({i \in p..(Len(s) + 1) : i = Len(s) + 1 \/ s[i] \notin class})

\* the least index >= p whose unit is in the class, Len(s)+1 when none
nextOf(s, p, class) == Min({i \in p..(Len(s) + 1) : i = Len(s) + 1 \/ s[i] \in class})

\* .replace(/LEAD[^\]]*\]\([^\)]+\)/g, rep) for LEAD = "![" or "["
RECURSIVE replaceLinks(_, _, _)
replaceLinks(s, lead, rep) ==
    LET i  == indexOf(s, lead, 1)
        rb == indexOf(s, <<"]">>, i + Len(lead))
        rp == IF rb > 0 /\ rb < Len(s) /\ s[rb + 1] = "(" THEN indexOf(s, <<")">>, rb + 2) ELSE 0
    IN  IF i = 0 THEN s
        ELSE IF rp >= rb + 3
             THEN SubSeq(s, 1, i - 1) \o rep \o replaceLinks(SubSeq(s, rp + 1, Len(s)), lead, rep)
             ELSE SubSeq(s, 1, i) \o replaceLinks(SubSeq(s, i + 1, Len(s)), lead, rep)

TickSet == {Backtick}
EmphSet == {"*", "_"}

\* .replace(/B{1,3}[^B]*B{1,3}/g, '') where B is the backtick
RECURSIVE stripInlineCode(_)
stripInlineCode(s) ==
    LET i == indexOf(s, <<Backtick>>, 1)
        e == runEnd(s, i, TickSet)              \* the run of backticks is s[i..e-1]
        a == e - i
        j == indexOf(s, <<Backtick>>, e)           \* the next backtick after the run
        \* the index after the match, 0 when nothing matches at i
        after == IF a >= 4 THEN i + 3 + Min({a - 3, 3})
                 ELSE IF j > 0 THEN j + Min({runEnd(s, j, TickSet) - j, 3})
                 ELSE IF a >= 2 THEN e
                 ELSE 0
    IN  IF i = 0 THEN s
        ELSE IF after > 0
             THEN SubSeq(s, 1, i - 1) \o stripInlineCode(SubSeq(s, after, Len(s)))
             ELSE SubSeq(s, 1, i) \o stripInlineCode(SubSeq(s, i + 1, Len(s)))

\* .replace(/[*_]{1,3}([^*_]+)[*_]{1,3}/g, '$1')
RECURSIVE stripEmphasis(_)
stripEmphasis(s) ==
    LET C == {k \in 1..Len(s) : s[k] \in EmphSet}
        i0 == IF C = {} THEN 0 ELSE Min(C)
        e == runEnd(s, i0, EmphSet)             \* the run of markers is s[i0..e-1]
        i == IF e - i0 > 3 THEN e - 3 ELSE i0  \* an opening takes at most 3 of them
        j == nextOf(s, e, EmphSet)                \* the next marker after the text
        c == Min({runEnd(s, j, EmphSet) - j, 3})
    IN  IF i0 = 0 THEN s
        ELSE IF e <= Len(s) /\ j <= Len(s)
             THEN SubSeq(s, 1, i - 1) \o SubSeq(s, e, j - 1)
                    \o stripEmphasis(SubSeq(s, j + c, Len(s)))
             ELSE s

\* .replace(/^\s*[>#*-]+\s*/gm, ''), from index p on
RECURSIVE stripMarkersFrom(_, _)
stripMarkersFrom(s, p) ==
    LET lineStart == p = 1 \/ s[p - 1] = "\n"
        q == runEnd(s, p, SpaceSet)
        r == runEnd(s, q, {">", "#", "*", "-"})
        t == runEnd(s, r, SpaceSet)
        n == indexOf(s, <<"\n">>, p)
    IN  IF p > Len(s) THEN <<>>
        ELSE IF lineStart /\ r > q THEN stripMarkersFrom(s, t)
        ELSE IF n = 0 THEN SubSeq(s, p, Len(s))
        ELSE SubSeq(s, p, n) \o stripMarkersFrom(s, n + 1)

\* String(body).split(/\n{2,}/)[0] || ''
firstParaOf(body) ==
    LET i == indexOf(body, T("\n\n"), 1)
    IN  IF i = 0 THEN body ELSE SubSeq(body, 1, i - 1)

\* bodyPlain: the first paragraph with markdown stripped lightly.  The link
\* pattern has no capture group, so '$1' is inserted as it is written.
bodyPlainOf(firstPara) ==
    LET noImages == replaceLinks(firstPara, T("!["), <<>>)
        noLinks  == replaceLinks(noImages, T("["), T("$1"))
        noCode   == stripInlineCode(noLinks)
        noMarks  == stripMarkersFrom(noCode, 1)
        noEmph   == stripEmphasis(noMarks)
    IN  trim(replaceRuns(noEmph, SpaceSet, " "))

\* String(body).split(/\s+/).filter(Boolean).length
wordsOf(body) ==
    Cardinality({i \in 1..Len(body) : ~IsSpace(body[i]) /\ (i = 1 \/ IsSpace(body[i - 1]))})

\* Math.ceil(n / 200)
ceilDiv200(n) == (n + 199) \div 200

Num(n) == [t |-> "num", v |-> n]

\* Object.fromEntries(Object.entries(base).filter(([,v]) => v !== '' && !(Array.isArray(v) && v.length === 0)))
removeEmpty(base) ==
    LET keep == {k \in DOMAIN base : base[k].t = "num" \/ base[k].v # <<>>}
    IN  [k \in keep |-> base[k]]

\* buildIndexEntry(filename, yaml, markdown)
buildIndexEntry(filename, yaml, markdown) ==
    LET y(k) == Get(yaml, T(k))
        slug == IF Truthy(y("slug")) THEN String(y("slug"))
                ELSE toSlug(String(Or(y("title"), Str(<<>>))))
        date == toIsoDate(y("date"))
        pathAbs == T("/content/news/") \o filename
        body == bodyOf(markdown)
        readingTimeMinutes == Max({1, ceilDiv200(wordsOf(body))})
        bodyPlain == bodyPlainOf(firstParaOf(body))
        excerpt == truncate(
            String(Or(Or(Or(Or(y("excerpt"), y("summary")), y("description")),
                         Str(bodyPlain)), Str(<<>>))),
            EXCERPT_MAX)
        base == [id |-> Str(date \o <<"-">> \o slug),
                 title |-> Str(String(Or(y("title"), Str(<<>>)))),
                 date |-> Str(date),
                 author |-> Str(String(Or(y("author"), Str(<<>>)))),
                 summary |-> Str(String(Or(Or(y("summary"), y("description")), Str(<<>>)))),
                 excerpt |-> Str(excerpt),
                 description |-> Str(excerpt),
                 hero |-> Str(String(Or(Or(y("hero"), y("image")), Str(<<>>)))),
                 imageAlt |-> Str(String(Or(Or(y("imageAlt"), y("title")), Str(<<>>)))),
                 tags |-> Arr(normalizeTags(y("tags"))),
                 slug |-> Str(slug),
                 filename |-> Str(filename),
                 path |-> Str(pathAbs),
                 link |-> Str(pathAbs),
                 readingTimeMinutes |-> Num(readingTimeMinutes),
                 readingTimeLabel |-> Str(NumText(readingTimeMinutes) \o T(" min"))]
    IN  removeEmpty(base)

---------------------------------------------------------------------------
(* tools/validate-news.mjs: validateFrontmatter, validateContent *)

\* /^(w1|w2|...)/i.test(s)
startsWithAnyI(s, words) == \E w \in words : startsWith(toLowerCase(s), T(w))

\* /([a-z])\1{4,}/i.test(s): one letter five or more times in a row
hasRepeatedLetter(s) ==
    LET l == toLowerCase(s)
    IN  \E i \in 1..(Len(l) - 4) :
            l[i] \in LowerSet /\ \A k \in 1..4 : l[i + k] = l[i]

\* /^[a-z]{15,}$/i.test(title.replace(/\s/g, ''))
isLongLetterRun(s) ==
    LET l == SelectSeq(toLowerCase(s), LAMBDA c : ~IsSpace(c))
    IN  Len(l) >= 15 /\ \A i \in 1..Len(l) : l[i] \in LowerSet

\* imagePath.match(/\/(\d{4})\/(\d{2})\//): <<year, month>> of the first match, <<>> when none
imageYearMonth(s) ==
    LET C == {i \in 1..(Len(s) - 8) :
                /\ s[i] = "/" /\ s[i + 5] = "/" /\ s[i + 8] = "/"
                /\ \A k \in {1, 2, 3, 4, 6, 7} : IsDigit(s[i + k])}
        i == Min(C)
    IN  IF C = {} THEN <<>> ELSE <<NumAt(s, i + 1, i + 4), NumAt(s, i + 6, i + 7)>>

\* <<getFullYear(), getMonth() + 1>> of a valid date-only Date in the zone
\* of the run: the UTC day itself east of Greenwich, the day before west of it
localYearMonth(date, west) ==
    IF ~west \/ date.d > 1 THEN <<date.y, date.m>>
    ELSE IF date.m > 1 THEN <<date.y, date.m - 1>>
    ELSE <<date.y - 1, 12>>

\* validateFrontmatter(yaml, filename) of the validator that main() runs;
\* parsed is the result of parseFrontmatter, clock the day and zone of the run
\* validateFrontmatter: the derived slug validation
derivedSlugUnchecked(yaml) == FALSE

derivedSlugEmpty(yaml) ==
    /\ ~Truthy(Get(yaml, T("slug")))
    /\ Truthy(Get(yaml, T("title")))
    /\ toSlug(String(Get(yaml, T("title")))) = <<>>

validateFrontmatter(parsed, filename, clock) ==
    LET yaml == parsed.yaml
        y(k) == Get(yaml, T(k))
        If(c, msg) == IF c THEN <<msg>> ELSE <<>>
        titleOk == Truthy(y("title")) /\ trim(String(y("title"))) # <<>>
        title == trim(String(y("title")))
        dateOk == Truthy(y("date")) /\ DATE_RE(String(y("date")))
        date == newDate(String(y("date")))
        image == String(y("image"))
        ym == imageYearMonth(image)
        author == trim(String(y("author")))
        summary == trim(String(y("summary")))
        nameOk == FILENAME_RE(filename)
        errors ==
            If(~titleOk, "title is required")
            \o If(~dateOk, "date must be YYYY-MM-DD")
            \o If(Truthy(y("slug")) /\ ~SLUG_RE(String(y("slug"))),
                  "slug format invalid (must be lowercase letters, numbers, and hyphens)")
            \o If(Truthy(y("image")) /\ ~HERO_RE(image),
                  "image path must be under /static/uploads/news/YYYY/MM/")
            \* 'tags must be array of strings' cannot arise: every element that
            \* parseFrontmatter puts into an array is a string
            \o If(~nameOk, "filename must match YYYY-MM-DD-slug.md format")
            \o If(derivedSlugEmpty(yaml), "slug would be empty when derived from title")
        warnings ==
            If(titleOk /\ Len(title) < 3, "title is too short (min 3 characters)")
            \o If(titleOk /\ Len(title) > 100, "title is too long (max 100 characters)")
            \o If(titleOk /\ startsWithAnyI(title,
                    {"test", "asdf", "qwerty", "lorem", "example", "sample", "demo"}),
                  "title appears to be test/placeholder content")
            \o If(titleOk /\ title[1] \notin UpperSet \cup DigitSet,
                  "title should start with a capital letter")
            \o If(titleOk /\ (isLongLetterRun(title) \/ hasRepeatedLetter(title)),
                  "title appears to contain random/repeated characters")
            \o If(dateOk /\ date.ok /\ date.day > clock.today + 30,
                  "date is more than 30 days in the future")
            \o If(dateOk /\ date.ok /\ date.day < DaysFromCivil(2020, 1, 1),
                  "date seems too old (before 2020)")
            \o If(Truthy(y("image")) /\ ym # <<>> /\ Truthy(y("date"))
                    /\ (~date.ok \/ ym # localYearMonth(date, clock.west)),
                  "image path year/month does not match post date")
            \o If(Truthy(y("author")) /\ Len(author) < 2, "author name is too short")
            \o If(Truthy(y("author")) /\ startsWithAnyI(author,
                    {"test", "admin", "user", "author", "writer"}),
                  "author appears to be a placeholder")
            \o If(Truthy(y("summary")) /\ Len(summary) < 10,
                  "summary is too short (min 10 characters)")
            \o If(Truthy(y("summary")) /\ Len(summary) > 200,
                  "summary is too long (max 200 characters)")
            \o If(Truthy(y("summary")) /\ startsWithAnyI(summary,
                    {"test", "lorem ipsum", "summary", "description"}),
                  "summary appears to be placeholder content")
            \o If(y("tags").t = "arr" /\ Len(y("tags").v) > 10,
                  "too many tags (max 10 recommended)")
            \o If(nameOk /\ DATE_RE(SubSeq(filename, 1, 10)) /\ Truthy(y("date"))
                    /\ (y("date").t # "str" \/ y("date").v # SubSeq(filename, 1, 10)),
                  "filename date does not match frontmatter date")
    IN  IF ~parsed.ok
        THEN [errors |-> <<"missing frontmatter block">>, warnings |-> <<>>]
        ELSE [errors |-> errors, warnings |-> warnings]

\* validateContent(markdown): the warnings about the body
validateContent(markdown) ==
    LET body == bodyOf(markdown)
        If(c, msg) == IF c THEN <<msg>> ELSE <<>>
        wordCount == wordsOf(body)
        emptyTarget(lead) ==
            \E i \in 1..Len(body) :
                /\ startsWith(SubSeq(body, i, Len(body)), lead)
                /\ LET rb == indexOf(body, <<"]">>, i + Len(lead))
                       rp == runEnd(body, rb + 2, SpaceSet)
                   IN  /\ rb > 0 /\ rb < Len(body) /\ body[rb + 1] = "("
                       /\ rp <= Len(body) /\ body[rp] = ")"
    IN  IF trim(body) = <<>> THEN <<"post has no content body">>
        ELSE If(wordCount < 50, "content is very short")
             \o If(wordCount > 10000, "content is very long")
             \o If(startsWithAnyI(SubSeq(body, 1, Min({100, Len(body)})),
                     {"test", "lorem ipsum", "content goes here", "placeholder"}),
                   "content appears to be placeholder text")
             \o If(emptyTarget(T("[")), "found broken markdown links (empty href)")
             \o If(emptyTarget(T("![")), "found broken markdown images (empty src)")

---------------------------------------------------------------------------
(* tools/news-cli.mjs: generateSlug *)

\* generateSlug(title), for a title that is a string
generateSlug(title) ==
    LET kept == SelectSeq(toLowerCase(title),
                          LAMBDA c : IsAlnum(c) \/ IsSpace(c) \/ c = "-")
        dashed == replaceRuns(kept, SpaceSet, "-")
    IN  stripEdgeHyphens(replaceRuns(dashed, {"-"}, "-"))

---------------------------------------------------------------------------
(* tools/news-cli.mjs: the header parser and the record of rebuildIndex *)

\* one header line, as the forEach of rebuildIndex reads it
parseLineCli(line) ==
    LET idx == indexOf(line, <<":">>, 1)
        key == SubSeq(line, 1, idx - 1)
        value == trim(SubSeq(line, idx + 1, Len(line)))
    IN  IF idx = 0 \/ key = <<>> THEN <<>>
        ELSE IF startsWith(value, <<"[">>) /\ endsWith(value, <<"]">>)
             THEN <<trim(key), Arr(mapTrim(split(sliceInner(value), ",")))>>
        ELSE IF startsWith(value, <<"\"">>) /\ endsWith(value, <<"\"">>)
             THEN <<trim(key), Str(sliceInner(value))>>
        ELSE <<trim(key), Str(value)>>

\* the yaml object of rebuildIndex
parseCli(content) ==
    LET m == matchFrontmatter(content)
        lines == split(m[2], "\n")
    IN  IF ~m[1] THEN [ok |-> FALSE, yaml |-> <<>>]
        ELSE [ok |-> TRUE, yaml |-> objectOf([i \in 1..Len(lines) |-> parseLineCli(lines[i])])]

\* body.split(/\s+/).length
splitCountOf(body) ==
    1 + Cardinality({i \in 1..Len(body) : IsSpace(body[i]) /\ (i = 1 \/ ~IsSpace(body[i - 1]))})

\* yaml.slug || generateSlug(yaml.title) throws a TypeError when it has to
\* call generateSlug and the title is not a string
slugThrows(yaml) ==
    ~Truthy(Get(yaml, T("slug"))) /\ Get(yaml, T("title")).t # "str"

\* the post object of rebuildIndex, for a header on which slugThrows is false
postOf(file, yaml, content) ==
    LET y(k) == Get(yaml, T(k))
        slug == IF Truthy(y("slug")) THEN y("slug") ELSE Str(generateSlug(y("title").v))
        readingTimeMinutes == ceilDiv200(splitCountOf(bodyOf(content)))
    IN  [id |-> Str(String(y("date")) \o <<"-">> \o String(slug)),
         title |-> Or(y("title"), Str(<<>>)),
         date |-> Or(y("date"), Str(<<>>)),
         author |-> Or(y("author"), Str(<<>>)),
         summary |-> Or(y("summary"), Str(<<>>)),
         image |-> Or(y("image"), Str(<<>>)),
         imageAlt |-> Or(Or(y("imageAlt"), y("title")), Str(<<>>)),
         tags |-> IF y("tags").t = "arr" THEN y("tags") ELSE Arr(<<>>),
         slug |-> slug,
         filename |-> Str(file),
         path |-> Str(T("/content/news/") \o file),
         link |-> Str(T("/content/news/") \o file),
         readingTimeMinutes |-> Num(readingTimeMinutes),
         readingTimeLabel |-> Str(NumText(readingTimeMinutes) \o T(" min"))]

---------------------------------------------------------------------------
(* Array.prototype.sort and the two comparators *)

\* the order of String.prototype.localeCompare on the code units that the
\* date fields of the model hold: punctuation, digits, letters
CollationStr == "-0123456789abcdefghijklmnopqrstuvwxyz"

CollationRank(c) == CHOOSE k \in 1..Len(CollationStr) : SubSeq(CollationStr, k, k) = c

\* a.localeCompare(b): -1, 0 or 1
RECURSIVE localeCompare(_, _)
localeCompare(a, b) ==
    IF a = <<>> THEN (IF b = <<>> THEN 0 ELSE -1)
    ELSE IF b = <<>> THEN 1
    ELSE IF CollationRank(a[1]) < CollationRank(b[1]) THEN -1
    ELSE IF CollationRank(a[1]) > CollationRank(b[1]) THEN 1
    ELSE localeCompare(Tail(a), Tail(b))

\* String(e.date || '')
dateKey(e) == IF "date" \in DOMAIN e THEN String(Or(e.date, Str(<<>>))) ELSE <<>>

\* (a,b) => String(b.date || '').localeCompare(String(a.date || ''))
compareMain(a, b) == localeCompare(dateKey(b), dateKey(a))

\* (a, b) => new Date(b.date) - new Date(a.date); NaN counts as 0 in a sort
compareCli(a, b) ==
    LET da == newDate(String(a.date))
        db == newDate(String(b.date))
    IN  IF ~da.ok \/ ~db.ok THEN 0
        ELSE IF db.day < da.day THEN -1
        ELSE IF db.day > da.day THEN 1 ELSE 0

\* Array.prototype.sort of V8 on an array shorter than 64: cmp[i][j] is the
\* comparator on the i-th and j-th element (a NaN already counted as 0), and
\* work lists indices of the array.  One run is counted from the left, then
\* the rest is put in place by binary insertion.

\* CountAndMakeRun: the length of the run that starts the array
countRun(work, cmp) ==
    LET n == Len(work)
        descending == cmp[work[2]][work[1]] < 0
        goesOn(k) == IF descending THEN cmp[work[k]][work[k - 1]] < 0
                     ELSE cmp[work[k]][work[k - 1]] >= 0
    IN  IF n < 2 THEN n
        ELSE Max({r \in 2..n : \A k \in 3..r : goesOn(k)})

\* ReverseRange on the first r places
reverseRun(work, r) ==
    [k \in 1..Len(work) |-> IF k <= r THEN work[r + 1 - k] ELSE work[k]]

\* the binary search of BinaryInsertionSort for the place of pivot in work[left..right-1]
RECURSIVE searchPlace(_, _, _, _, _)
searchPlace(work, pivot, left, right, cmp) ==
    IF left >= right THEN left
    ELSE LET mid == left + (right - left) \div 2
         IN  IF cmp[pivot][work[mid]] < 0
             THEN searchPlace(work, pivot, left, mid, cmp)
             ELSE searchPlace(work, pivot, mid + 1, right, cmp)

\* BinaryInsertionSort from place start on
RECURSIVE binaryInsertionSort(_, _, _)
binaryInsertionSort(work, start, cmp) ==
    IF start > Len(work) THEN work
    ELSE LET pivot == work[start]
             place == searchPlace(work, pivot, 1, start, cmp)
             moved == SubSeq(work, 1, place - 1) \o <<pivot>>
                        \o SubSeq(work, place, start - 1)
                        \o SubSeq(work, start + 1, Len(work))
         IN  binaryInsertionSort(moved, start + 1, cmp)

\* the indices 1..n in the order in which the sort leaves the elements
sortedOrder(n, cmp) ==
    LET work == [k \in 1..n |-> k]
        r == countRun(work, cmp)
        run == IF n >= 2 /\ cmp[2][1] < 0 THEN reverseRun(work, r) ELSE work
    IN  binaryInsertionSort(run, r + 1, cmp)

sortMainKeepingOrder(entries) == entries

sortMain(entries) ==
    LET cmp == [i \in 1..Len(entries) |-> [j \in 1..Len(entries) |->
                    compareMain(entries[i], entries[j])]]
        order == sortedOrder(Len(entries), cmp)
    IN  [k \in 1..Len(entries) |-> entries[order[k]]]

sortCli(posts) ==
    LET cmp == [i \in 1..Len(posts) |-> [j \in 1..Len(posts) |->
                    compareCli(posts[i], posts[j])]]
        order == sortedOrder(Len(posts), cmp)
    IN  [k \in 1..Len(posts) |-> posts[order[k]]]

---------------------------------------------------------------------------
(* The content directory *)

PostName  == "2024-01-01-post.md"
XName     == "20240615-x.md"
NotesName == "Notes.MD"

\* the names a file of content/news can have, in the order of strcmp, which
\* is the order in which fs.readdir of Node lists a directory
Filenames == <<PostName, XName, NotesName>>

FilenameSet == {Filenames[i] : i \in 1..Len(Filenames)}

\* what a file with a given name can hold
Contents ==
    [f \in FilenameSet |->
        CASE f = PostName ->
               { T("---\ntitle: X\ndate: 2024-01-01\n---\n\nHello world"),
                 T("---\ntitle: X\ndate: 2024-03-05\ntags: [news, community]\nhero: p.jpg\n---\n\nHello"),
                 T("No header here") }
          [] f = XName ->
               { T("---\ntitle: X\ndate: 2024-03-05\n---\n\nBody"),
                 T("---\ntitle: A.B\ndate: \"2024-13-40\"\ntags: \"news, community\"\n---\n\nBody"),
                 T("---\ndate: soon\nslug: x\n---\n\n") }
          [] OTHER ->
               { T("---\ntitle: Test\ndate: 2023-12-31\nimage: /static/uploads/news/2024/06/p.jpg\n---\n\n- [a](b) c"),
                 T("---\ntitle: X"),
                 <<>> }]

Absent == [kind |-> "absent", raw |-> <<>>]
Unreadable == [kind |-> "unreadable", raw |-> <<>>]
File(raw) == [kind |-> "file", raw |-> raw]

\* the states of a file; the first file of the directory is the one whose
\* read permission can be taken away
FileStates(f) ==
    {Absent} \cup (IF f = PostName THEN {Unreadable} ELSE {})
        \cup {File(r) : r \in Contents[f]}

\* the day and the time zone of a run of the validator
Clocks == { [today |-> DaysFromCivil(2024, 7, 1), west |-> FALSE],
            [today |-> DaysFromCivil(2023, 11, 20), west |-> TRUE] }

NoIndex == [exists |-> FALSE, entries |-> <<>>, newline |-> FALSE]

\* JSON.stringify(entries, null, 2) followed by tail, as written by fs.writeFile
Document(entries, newline) == [exists |-> TRUE, entries |-> entries, newline |-> newline]

\* fs.readdir(CONTENT_DIR): the names of the files that exist, sorted
readdir(d) == SelectSeq(Filenames, LAMBDA f : d[f].kind # "absent")

\* listMarkdown(dir) of validate-news: [] when the directory cannot be read
listMarkdown(d, m) ==
    IF m = "noread" THEN <<>>
    ELSE SelectSeq(readdir(d), LAMBDA f : endsWith(toLowerCase(T(f)), T(".md")))

\* files.filter(f => f.endsWith('.md')) of rebuildIndex
markdownFiles(d) == SelectSeq(readdir(d), LAMBDA f : endsWith(T(f), T(".md")))

\* readFileSafe(p) returns null or the text; main() skips the file on !raw
cannotRead(file) == file.kind # "file" \/ file.raw = <<>>

\* one iteration of the loop of main(): what it prints and the entry it pushes
mainUnit(f, file, clock) ==
    LET parsed == parseFrontmatter(file.raw)
        v == validateFrontmatter(parsed, T(f), clock)
        allWarnings == v.warnings \o validateContent(file.raw)
    IN  IF cannotRead(file)
        THEN [errors |-> <<"Cannot read">>, warnings |-> <<>>, entry |-> <<>>]
        ELSE [errors |-> v.errors, warnings |-> allWarnings,
              entry |-> <<buildIndexEntry(T(f), IF parsed.ok THEN parsed.yaml ELSE <<>>,
                                          file.raw)>>]

\* one iteration of the loop of rebuildIndex: the post it pushes, if any
cliUnit(f, file) ==
    LET parsed == parseCli(file.raw)
    IN  IF file.kind # "file" THEN [warned |-> TRUE, post |-> <<>>]
        ELSE IF ~parsed.ok THEN [warned |-> FALSE, post |-> <<>>]
        ELSE IF slugThrows(parsed.yaml) THEN [warned |-> TRUE, post |-> <<>>]
        ELSE [warned |-> FALSE, post |-> <<postOf(T(f), parsed.yaml, file.raw)>>]

\* the entries array after the loop of main(): a unit that cannot be read is
\* passed over with continue, every other unit pushes its entry
entriesUntilUnreadable(units) ==
    LET stop == {i \in 1..Len(units) : units[i].entry = <<>>}
        last == IF stop = {} THEN Len(units) ELSE Min(stop) - 1
    IN  Flatten([i \in 1..last |-> units[i].entry])

entriesOf(units) == Flatten([i \in 1..Len(units) |-> units[i].entry])

\* mainUnit and cliUnit on every file of the model, computed once
MainUnits ==
    [f \in FilenameSet |-> [st \in FileStates(f) \ {Absent} |->
        [clock \in Clocks |-> mainUnit(f, st, clock)]]]

CliUnits == [f \in FilenameSet |-> [st \in FileStates(f) \ {Absent} |-> cliUnit(f, st)]]

\* fs.writeFile(indexPath, text): the document replaces the one on disk
writeFileAppending(old, doc) ==
    [exists |-> TRUE, entries |-> old.entries \o doc.entries, newline |-> doc.newline]

writeFile(old, doc) == doc

NoReport == [f \in {} |-> <<>>]

---------------------------------------------------------------------------
(* The commands *)

\* node tools/validate-news.mjs: main()
ValidateMain ==
    \E clock \in Clocks :
        LET files == listMarkdown(dir, mode)
            units == [i \in 1..Len(files) |-> MainUnits[files[i]][dir[files[i]]][clock]]
            hasErrors == \E i \in 1..Len(files) : units[i].errors # <<>>
            entries == entriesOf(units)
        IN  /\ report' = [f \in {files[i] : i \in 1..Len(files)} |->
                            LET i == CHOOSE k \in 1..Len(files) : files[k] = f
                            IN  [errors |-> units[i].errors, warnings |-> units[i].warnings]]
            /\ IF files = <<>>
               THEN exitCode' = 0 /\ index' = index
               ELSE IF mode = "ro"
               THEN exitCode' = 1 /\ index' = index
               ELSE /\ index' = writeFile(index, Document(sortMain(entries), TRUE))
                    /\ exitCode' = IF hasErrors THEN 1 ELSE 0
            /\ lastRun' = "validate"
            /\ repeats' = IF lastRun = "validate" THEN Min({repeats + 1, MaxRepeats}) ELSE 1
            /\ UNCHANGED <<dir, mode, edits, fnVars, imVars, envVars>>

\* node tools/news-cli.mjs rebuild-index: rebuildIndex()
RebuildIndex ==
    LET files == markdownFiles(dir)
        units == [i \in 1..Len(files) |-> CliUnits[files[i]][dir[files[i]]]]
        posts == Flatten([i \in 1..Len(files) |-> units[i].post])
    IN  /\ IF mode # "rw"
           THEN exitCode' = 1 /\ index' = index /\ report' = NoReport
           ELSE /\ index' = writeFile(index, Document(sortCli(posts), FALSE))
                /\ exitCode' = 0
                /\ report' = [f \in {files[i] : i \in {k \in 1..Len(files) : units[k].warned}} |->
                                [errors |-> <<>>, warnings |-> <<"Could not parse">>]]
        /\ lastRun' = "rebuild"
        /\ repeats' = IF lastRun = "rebuild" THEN Min({repeats + 1, MaxRepeats}) ELSE 1
        /\ UNCHANGED <<dir, mode, edits, fnVars, imVars, envVars>>

---------------------------------------------------------------------------
(* The authors, who change the file system between commands *)

\* a file is created, overwritten, made unreadable or deleted
ChangeFile ==
    \E f \in FilenameSet : \E st \in FileStates(f) :
        /\ edits < MaxEdits
        /\ st # dir[f]
        /\ dir' = [dir EXCEPT ![f] = st]
        /\ edits' = edits + 1
        /\ lastRun' = "none"
        /\ repeats' = 0
        /\ UNCHANGED <<mode, index, exitCode, report, fnVars, imVars, envVars>>

\* the permissions of the directory are changed
ChangeMode ==
    \E m \in {"rw", "ro", "noread"} :
        /\ edits < MaxEdits
        /\ m # mode
        /\ mode' = m
        /\ edits' = edits + 1
        /\ lastRun' = "none"
        /\ repeats' = 0
        /\ UNCHANGED <<dir, index, exitCode, report, fnVars, imVars, envVars>>

NoFn == /\ txt = <<>>
        /\ out = <<>>
        /\ pc = "fs"

\* no import is running
NoIm == /\ bundles = <<>>
        /\ rebuilds = 0
        /\ uploads = {}

\* no watch loop is running and no page is open
NoEnv == /\ procs = 0
         /\ cache = <<>>
         /\ session = <<>>
         /\ now = 0

Init ==
    /\ dir \in [FilenameSet -> UNION {FileStates(f) : f \in FilenameSet}]
    /\ \A f \in FilenameSet : dir[f] \in FileStates(f)
    /\ mode = "rw"
    /\ index = NoIndex
    /\ exitCode = 0
    /\ report = NoReport
    /\ lastRun = "none"
    /\ repeats = 0
    /\ edits = 0
    /\ NoFn
    /\ NoIm
    /\ NoEnv

Spec == Init /\ [][ValidateMain \/ RebuildIndex \/ ChangeFile \/ ChangeMode]_vars

\* the state of the file-system variables during a pure-function run
NoFs ==
    /\ dir = [f \in FilenameSet |-> Absent]
    /\ mode = "rw"
    /\ index = NoIndex
    /\ exitCode = 0
    /\ report = NoReport
    /\ lastRun = "none"
    /\ repeats = 0
    /\ edits = 0

---------------------------------------------------------------------------
(* Pure-function runs of toSlug *)

RECURSIVE TextsUpTo(_, _)
TextsUpTo(A, n) ==
    IF n = 0 THEN {<<>>}
    ELSE LET shorter == TextsUpTo(A, n - 1)
         IN  shorter \cup {Append(s, c) : s \in shorter, c \in A}

\* "\u010Cudovita Novica!", the title of the slug example
CudovitaNovica == <<CCaronUpper>> \o T("udovita Novica!")

\* the inputs of toSlug; "U+0111" is LATIN SMALL LETTER D WITH STROKE, which
\* has no decomposition
InitSlug ==
    /\ txt \in TextsUpTo({"a", "B", "7", " ", "-", "!", CCaronUpper, "U+0111", Caron}, MaxLen)
                \cup {CudovitaNovica}
    /\ out = <<>>
    /\ pc = "input"
    /\ NoFs
    /\ NoIm
    /\ NoEnv

\* slugify(text)
Slugify ==
    /\ pc = "input"
    /\ out' = toSlug(txt)
    /\ pc' = "slug"
    /\ UNCHANGED <<txt, fsVars, imVars, envVars>>

\* slugify applied to its own result
SlugifyAgain ==
    /\ pc = "slug"
    /\ txt' = out
    /\ out' = toSlug(out)
    /\ pc' = "again"
    /\ UNCHANGED <<fsVars, imVars, envVars>>

\* the command slug <title> of the news CLI: generateSlugFromTitle prints
\* generateSlug(title); with no title it prints an error and exits
SlugCommand ==
    /\ pc = "input"
    /\ txt # <<>>
    /\ out' = generateSlug(txt)
    /\ pc' = "printed"
    /\ UNCHANGED <<txt, fsVars, imVars, envVars>>

\* one iteration of the loop of main() of the validator, on a unit whose
\* title is the text and that has no slug, a slug or a malformed slug
ValidateTitled ==
    \E slugLine \in {<<>>, T("slug: x\n"), T("slug: -\n")} :
        LET raw == T("---\ntitle: ") \o txt \o T("\n") \o slugLine
                        \o T("date: 2024-01-01\n---\n\nHello world")
            clock == CHOOSE c \in Clocks : ~c.west
        IN  /\ pc = "input"
            /\ out' = [raw |-> raw, unit |-> mainUnit(PostName, File(raw), clock)]
            /\ pc' = "validated"
            /\ UNCHANGED <<txt, fsVars, imVars, envVars>>

SpecSlug == InitSlug /\ [][Slugify \/ SlugifyAgain \/ SlugCommand \/ ValidateTitled]_vars

---------------------------------------------------------------------------
(* Pure-function runs of the excerpt of buildIndexEntry *)

\* a word of n letters
WordOf(n) == [i \in 1..n |-> "a"]

\* entry.excerpt of the record built for the unit, '' when the record has none
excerptOf(raw) ==
    LET parsed == parseFrontmatter(raw)
        entry == buildIndexEntry(T(XName), parsed.yaml, raw)
    IN  IF "excerpt" \in DOMAIN entry THEN entry["excerpt"].v ELSE <<>>

\* A unit of the excerpt runs has a valid header, no excerpt, summary or
\* description, and a body of up to MaxWords tokens with one space between
\* them: words of several lengths, a word in emphasis markers, and a
\* paragraph break.
InitExcerpt ==
    /\ LET BodyTokens ==
               {WordOf(n) : n \in {1, 60, 72, 108, 109, 181}}
                   \cup {<<"*">> \o WordOf(179) \o <<"*">>, T("\n\n")}
           Bodies ==
               {join(ts, <<" ">>) : ts \in UNION {[1..k -> BodyTokens] : k \in 0..MaxWords}}
       IN  txt \in {T("---\ntitle: X\ndate: 2024-03-05\n---\n\n") \o b : b \in Bodies}
    /\ out = <<>>
    /\ pc = "unit"
    /\ NoFs
    /\ NoIm
    /\ NoEnv

\* the validator builds the record of the unit
BuildExcerpt ==
    /\ pc = "unit"
    /\ out' = excerptOf(txt)
    /\ pc' = "excerpt"
    /\ UNCHANGED <<txt, fsVars, imVars, envVars>>

SpecExcerpt == InitExcerpt /\ [][BuildExcerpt]_vars

---------------------------------------------------------------------------
(* tools/news-cli.mjs: the command create *)

\* fs.access(filepath) of createPost: it resolves when the file is there
accessNever(d, filename) == FALSE

access(d, filename) ==
    \E f \in FilenameSet : T(f) = filename /\ d[f].kind # "absent"

\* content/news before the command runs; the index has not been built
InitCreate ==
    /\ dir \in [FilenameSet -> UNION {FileStates(f) \ {Unreadable} : f \in FilenameSet}]
    /\ \A f \in FilenameSet : dir[f] \in FileStates(f)
    /\ mode \in {"rw", "ro"}
    /\ index = NoIndex
    /\ exitCode = 0
    /\ report = NoReport
    /\ lastRun = "none"
    /\ repeats = 0
    /\ edits = 0
    /\ txt = <<>>
    /\ out = <<>>
    /\ pc = "create"
    /\ NoIm
    /\ NoEnv

\* node tools/news-cli.mjs create --title .. --date .. [--slug ..]
\* [--image ..] [--copy-image] [--body ..]: createPost(options).  The
\* option parser of main() stores --copy-image under the key 'copy-image',
\* which createPost does not read, so shouldCopyImage is undefined and
\* copyImage is not called.  txt is the generated file name, out what the
\* command printed.  The options drawn are those whose generated file name
\* is one of the file names of the model.
CreatePost ==
    \E title \in {Undefined, Str(T("X")), Str(T("A.B"))},
       date \in {Undefined, Str(T("2024-06-15"))},
       slug \in {Undefined, Str(T("x"))},
       image \in {Undefined, Str(T("p.jpg"))},
       body \in {Undefined, Str(T("Hello"))} :
        LET finalSlug == IF Truthy(slug) THEN slug.v ELSE generateSlug(title.v)
            generateFilename == SelectSeq(date.v, LAMBDA c : c # "-")
                                    \o <<"-">> \o finalSlug \o T(".md")
            line(key, value) == T(key) \o T(": \"") \o value \o T("\"")
            frontmatter ==
                <<line("title", title.v), line("date", date.v)>>
                    \o (IF finalSlug # <<>> THEN <<line("slug", finalSlug)>> ELSE <<>>)
                    \o (IF Truthy(image) THEN <<line("image", image.v)>> ELSE <<>>)
                    \o <<line("imageAlt", title.v)>>
            content == T("---\n") \o join(frontmatter, "\n") \o T("\n---\n\n")
                            \o String(Or(body, Str(<<>>)))
            written == [f \in FilenameSet |->
                            IF T(f) = generateFilename THEN File(content) ELSE dir[f]]
            files == markdownFiles(written)
            posts == Flatten([i \in 1..Len(files) |-> cliUnit(files[i], written[files[i]]).post])
        IN  /\ pc = "create"
            /\ lastRun' = "create"
            /\ IF ~Truthy(title) \/ ~Truthy(date)
               THEN /\ out' = "title and date are required"
                    /\ exitCode' = 1
                    /\ txt' = <<>>
                    /\ UNCHANGED <<dir, index>>
               ELSE /\ (Truthy(slug) \/ title = Str(T("X")))
                    /\ txt' = generateFilename
                    /\ IF access(dir, generateFilename)
                       THEN /\ out' = "Post already exists"
                            /\ exitCode' = 1
                            /\ UNCHANGED <<dir, index>>
                       ELSE IF mode # "rw"
                       THEN /\ out' = "Error creating post"
                            /\ exitCode' = 1
                            /\ UNCHANGED <<dir, index>>
                       ELSE /\ out' = "Post created"
                            /\ exitCode' = 0
                            /\ dir' = written
                            /\ index' = writeFile(index, Document(sortCli(posts), FALSE))
            /\ UNCHANGED <<mode, report, repeats, edits, pc, imVars, envVars>>

SpecCreate == InitCreate /\ [][CreatePost]_vars

---------------------------------------------------------------------------
(* ArchiveImporter: tools/import_incoming_zip.py, which the source tree   *)
(* does not hold; the import run is modelled from section 4.6 of the      *)
(* specification and from incoming/README.md                              *)

\* most bundles in one batch
MaxBundles == 2

\* what an archive of incoming/ can be: one that cannot be extracted, one
\* with no content/news/*.md in it (with or without an image), one with a
\* unit file and the image the unit refers to
Payloads ==
    LET image == T("p.jpg")
        refers(r) == \E i \in 1..(Len(r) - Len(image) + 1) :
                        SubSeq(r, i, i + Len(image) - 1) = image
    IN  {[kind |-> "corrupt", name |-> "", raw |-> <<>>, images |-> {}],
         [kind |-> "empty", name |-> "", raw |-> <<>>, images |-> {}],
         [kind |-> "empty", name |-> "", raw |-> <<>>, images |-> {"p.jpg"}]}
            \cup UNION {{[kind |-> "unit", name |-> f, raw |-> r,
                          images |-> IF refers(r) THEN {"p.jpg"} ELSE {}] :
                            r \in Contents[f]} : f \in {PostName, XName}}

\* the states of a bundle after which the importer is done with it; it is
\* done as well with an extracted bundle that step 2 has skipped
Terminal == {"failed", "partiallyFailed", "merged", "indexed"}

\* step 5: the index builder runs after all bundles of the batch are processed
firstBundleProcessed(batch) ==
    \A i \in 1..Min({1, Len(batch)}) : batch[i].state \in Terminal \/ batch[i].skipped

batchProcessed(batch) ==
    \A i \in 1..Len(batch) : batch[i].state \in Terminal \/ batch[i].skipped

\* the bundle the single-threaded importer is working on, 0 when there is none
currentBundle(batch) ==
    LET open == {i \in 1..Len(batch) : batch[i].state \notin Terminal /\ ~batch[i].skipped}
    IN  IF open = {} THEN 0 ELSE Min(open)

\* steps 2 to 4: the content directory, the image directory and the state
\* of a bundle after the merge.  A bundle with no unit file is skipped
\* whole; the unit file is moved first and its images after it; a file
\* whose name is taken is not moved and ends the merge, and what was moved
\* before it stays
mergeOverwriting(d, up, payload) ==
    IF payload.kind = "empty"
    THEN [dir |-> d, uploads |-> up, state |-> "extracted", skipped |-> TRUE]
    ELSE [dir |-> [d EXCEPT ![payload.name] = File(payload.raw)],
          uploads |-> up \cup payload.images,
          state |-> IF d[payload.name].kind # "absent" \/ payload.images \cap up # {}
                    THEN "partiallyFailed" ELSE "merged",
          skipped |-> FALSE]

mergeMovingImages(d, up, payload) ==
    IF payload.kind = "empty"
    THEN [dir |-> d, uploads |-> up \cup payload.images, state |-> "extracted",
          skipped |-> TRUE]
    ELSE IF d[payload.name].kind # "absent"
    THEN [dir |-> d, uploads |-> up, state |-> "partiallyFailed", skipped |-> FALSE]
    ELSE LET moved == [d EXCEPT ![payload.name] = File(payload.raw)]
         IN  IF payload.images \cap up # {}
             THEN [dir |-> moved, uploads |-> up, state |-> "partiallyFailed",
                   skipped |-> FALSE]
             ELSE [dir |-> moved, uploads |-> up \cup payload.images, state |-> "merged",
                   skipped |-> FALSE]

mergeOutcome(d, up, payload) ==
    IF payload.kind = "empty"
    THEN [dir |-> d, uploads |-> up, state |-> "extracted", skipped |-> TRUE]
    ELSE IF d[payload.name].kind # "absent"
    THEN [dir |-> d, uploads |-> up, state |-> "partiallyFailed", skipped |-> FALSE]
    ELSE LET moved == [d EXCEPT ![payload.name] = File(payload.raw)]
         IN  IF payload.images \cap up # {}
             THEN [dir |-> moved, uploads |-> up, state |-> "partiallyFailed",
                   skipped |-> FALSE]
             ELSE [dir |-> moved, uploads |-> up \cup payload.images, state |-> "merged",
                   skipped |-> FALSE]

InitImport ==
    /\ dir \in UNION {{[f \in FilenameSet |-> IF f = g THEN st ELSE Absent] :
                            st \in FileStates(g) \ {Unreadable}} : g \in FilenameSet}
    /\ mode = "rw"
    /\ index = NoIndex
    /\ exitCode = 0
    /\ report = NoReport
    /\ lastRun = "none"
    /\ repeats = 0
    /\ edits = 0
    /\ txt = <<>>
    /\ out = <<>>
    /\ pc = "import"
    /\ bundles \in UNION {[1..k -> {[payload |-> q, state |-> "pending", skipped |-> FALSE] :
                                        q \in Payloads}] :
                            k \in 0..MaxBundles}
    /\ rebuilds = 0
    /\ uploads \in {{}, {"p.jpg"}}
    /\ NoEnv

\* step 1 on the current bundle: an archive that cannot be extracted fails
ExtractBundle ==
    LET i == currentBundle(bundles)
    IN  /\ pc = "import"
        /\ i > 0
        /\ bundles[i].state = "pending"
        /\ bundles' = [bundles EXCEPT ![i].state =
                            IF bundles[i].payload.kind = "corrupt" THEN "failed" ELSE "extracted"]
        /\ UNCHANGED <<fsVars, fnVars, rebuilds, uploads, envVars>>

\* steps 2 to 4 on the current bundle
MergeBundle ==
    LET i == currentBundle(bundles)
    IN  /\ pc = "import"
        /\ i > 0
        /\ bundles[i].state = "extracted"
        /\ LET merge == mergeOutcome(dir, uploads, bundles[i].payload)
           IN  /\ dir' = merge.dir
               /\ uploads' = merge.uploads
               /\ bundles' = [bundles EXCEPT ![i].state = merge.state,
                                             ![i].skipped = merge.skipped]
        /\ UNCHANGED <<mode, index, exitCode, report, lastRun, repeats, edits,
                       txt, out, pc, rebuilds, envVars>>

\* step 5: the index is rebuilt from the content directory
RebuildAfterImportMarkingAll ==
    LET files == markdownFiles(dir)
        posts == Flatten([i \in 1..Len(files) |-> CliUnits[files[i]][dir[files[i]]].post])
    IN  /\ pc = "import"
        /\ batchProcessed(bundles)
        /\ index' = writeFile(index, Document(sortCli(posts), FALSE))
        /\ rebuilds' = rebuilds + 1
        /\ bundles' = [i \in 1..Len(bundles) |->
                          IF bundles[i].state \in {"merged", "partiallyFailed"}
                          THEN [bundles[i] EXCEPT !.state = "indexed"] ELSE bundles[i]]
        /\ pc' = "done"
        /\ UNCHANGED <<dir, mode, exitCode, report, lastRun, repeats, edits, txt, out,
                       uploads, envVars>>

RebuildAfterImport ==
    LET files == markdownFiles(dir)
        posts == Flatten([i \in 1..Len(files) |-> CliUnits[files[i]][dir[files[i]]].post])
    IN  /\ pc = "import"
        /\ batchProcessed(bundles)
        /\ index' = writeFile(index, Document(sortCli(posts), FALSE))
        /\ rebuilds' = rebuilds + 1
        /\ bundles' = [i \in 1..Len(bundles) |->
                          IF bundles[i].state = "merged"
                          THEN [bundles[i] EXCEPT !.state = "indexed"] ELSE bundles[i]]
        /\ pc' = "done"
        /\ UNCHANGED <<dir, mode, exitCode, report, lastRun, repeats, edits, txt, out,
                       uploads, envVars>>

SpecImport == InitImport /\ [][ExtractBundle \/ MergeBundle \/ RebuildAfterImport]_vars

---------------------------------------------------------------------------
(* run_watch_incoming.sh: the loop that polls incoming/ *)

\* most importer runs of one behaviour of the loop
MaxPolls == 4

\* the script has been started: txt is the interpreter that command -v
\* finds (none when it is empty), out the exit statuses of the importer
\* runs so far
InitWatch ==
    /\ txt \in {T("python3"), T("python"), <<>>}
    /\ out = <<>>
    /\ pc = "while"
    /\ procs = 0
    /\ cache = <<>>
    /\ session = <<>>
    /\ now = 0
    /\ NoFs
    /\ NoIm

\* python3 tools/import_incoming_zip.py (or python ...): the shell starts
\* the importer in the foreground and waits for it
StartImporter ==
    /\ pc \in {"while", "done"}
    /\ txt # <<>>
    /\ Len(out) < MaxPolls
    /\ procs' = procs + 1
    /\ pc' = "importer"
    /\ UNCHANGED <<txt, out, fsVars, imVars, cache, session, now>>

\* no interpreter: the message and exit 1
NoInterpreter ==
    /\ pc \in {"while", "done"}
    /\ txt = <<>>
    /\ exitCode' = 1
    /\ pc' = "exit"
    /\ UNCHANGED <<txt, out, dir, mode, index, report, lastRun, repeats, edits,
                   imVars, envVars>>

\* the importer exits with some status; || true makes the status of the
\* command zero, so set -e does not end the script, which goes on to sleep 5
ImporterFailureEndsLoop ==
    \E status \in {0, 1, 2} :
        /\ pc = "importer"
        /\ procs' = procs - 1
        /\ out' = Append(out, status)
        /\ pc' = IF status = 0 THEN "sleep" ELSE "exit"
        /\ exitCode' = status
        /\ UNCHANGED <<txt, dir, mode, index, report, lastRun, repeats, edits,
                       imVars, cache, session, now>>

ImporterExits ==
    \E status \in {0, 1, 2} :
        /\ pc = "importer"
        /\ procs' = procs - 1
        /\ out' = Append(out, status)
        /\ pc' = "sleep"
        /\ UNCHANGED <<txt, fsVars, imVars, cache, session, now>>

\* sleep 5 is over, and the loop is at its done
SleepElapses ==
    /\ pc = "sleep"
    /\ pc' = "done"
    /\ UNCHANGED <<txt, out, fsVars, imVars, envVars>>

NextWatch == StartImporter \/ NoInterpreter \/ ImporterExits \/ SleepElapses

\* the shell runs the commands of the script one after the other; the
\* importer is taken to exit and sleep 5 to return
SpecWatch == InitWatch /\ [][NextWatch]_vars /\ WF_vars(NextWatch)

---------------------------------------------------------------------------
(* sw.js: the service worker *)

\* the worker is installed and activated: cache.add has stored the pages of
\* urlsToCache that were fetched with an ok response (here /index.html)
InitSw ==
    /\ cache \in {<<>>, [k \in {"/index.html"} |-> 200]}
    /\ pc = "sw"
    /\ txt = <<>>
    /\ out = <<>>
    /\ procs = 0
    /\ session = <<>>
    /\ now = 0
    /\ NoFs
    /\ NoIm

\* the fetch event handler, with staleWhileRevalidate and cacheFirst.  first
\* and second are what the network gives to the first and to the second
\* fetch(request) of one event: a response with a status (0 for an opaque
\* one) or a rejection.  out is the response the handler answers with.
FetchEvent ==
    \E request \in
            {[url |-> "/", mode |-> "navigate", destination |-> "document"],
             [url |-> "/css/site.css", mode |-> "no-cors", destination |-> "style"],
             [url |-> "/js/app.js", mode |-> "no-cors", destination |-> "script"],
             [url |-> "/images/soncelogo.jpg", mode |-> "no-cors", destination |-> "image"],
             [url |-> "/content/news/index.json", mode |-> "cors", destination |-> ""]},
       method \in {"GET", "POST"},
       first \in [resolved : BOOLEAN, status : {200, 404, 500, 0}],
       second \in [resolved : BOOLEAN, status : {200, 404, 500, 0}] :
        LET OFFLINE_URL == "/index.html"
            put(key, response) ==
                [k \in DOMAIN cache \cup {key} |-> IF k = key THEN response.status ELSE cache[k]]
            match(key) == key \in DOMAIN cache
            fromNetwork(response) == [from |-> "network", status |-> response.status]
            fromCache(key) == [from |-> "cache", status |-> cache[key]]
            nothing(what) == [from |-> what, status |-> 0]
        IN  /\ pc = "sw"
            /\ IF method # "GET"
               THEN \* the handler returns and the browser performs the request
                    /\ out' = nothing("unhandled")
                    /\ cache' = cache
               ELSE IF request.mode = "navigate"
               THEN IF first.resolved
                    THEN /\ out' = fromNetwork(first)
                         /\ cache' = IF first.status = 200 THEN put(OFFLINE_URL, first)
                                      ELSE cache
                    ELSE /\ out' = IF match(OFFLINE_URL) THEN fromCache(OFFLINE_URL)
                                   ELSE nothing("offline page")
                         /\ cache' = cache
               ELSE IF request.destination \in {"style", "script", "worker"}
               THEN IF first.resolved
                    THEN /\ out' = fromNetwork(first)
                         /\ cache' = put(request.url, first)
                    ELSE \* staleWhileRevalidate(request)
                         /\ out' = IF match(request.url) THEN fromCache(request.url)
                                   ELSE IF second.resolved THEN fromNetwork(second)
                                   ELSE nothing("undefined")
                         /\ cache' = IF second.resolved /\ second.status = 200
                                      THEN put(request.url, second) ELSE cache
               ELSE IF request.destination = "image"
               THEN \* cacheFirst(request)
                    IF match(request.url)
                    THEN out' = fromCache(request.url) /\ cache' = cache
                    ELSE IF first.resolved
                    THEN /\ out' = fromNetwork(first)
                         /\ cache' = IF first.status = 200 THEN put(request.url, first)
                                      ELSE cache
                    ELSE /\ out' = IF second.resolved THEN fromNetwork(second)
                                   ELSE nothing("network error")
                         /\ cache' = cache
               ELSE /\ out' = IF first.resolved THEN fromNetwork(first)
                              ELSE IF match(request.url) THEN fromCache(request.url)
                              ELSE nothing("undefined")
                    /\ cache' = cache
            /\ UNCHANGED <<txt, pc, fsVars, imVars, procs, session, now>>

SpecSw == InitSw /\ [][FetchEvent]_vars

---------------------------------------------------------------------------
(* news/performance.js: optimizedFetch and its cache in sessionStorage *)

\* getCachedResponse(url, maxAge = 300000)
maxAge == 300000

\* the clock of a behaviour stops at MaxTicks * maxAge
MaxTicks == 2

\* getCachedResponse(url) at the time Date.now() = time: the data of the
\* entry of the url when the entry is younger than maxAge, null otherwise
getCachedResponseOfAnyAge(store, url, time) ==
    IF url \in DOMAIN store THEN store[url].data ELSE "null"

getCachedResponse(store, url, time) ==
    IF url \in DOMAIN store /\ time - store[url].timestamp < maxAge
    THEN store[url].data ELSE "null"

\* the page has been opened in a new tab: sessionStorage is empty
InitPage ==
    /\ session = <<>>
    /\ now = 0
    /\ pc = "page"
    /\ txt = <<>>
    /\ out = [from |-> "none", url |-> "", method |-> "", ok |-> FALSE, data |-> "null"]
    /\ procs = 0
    /\ cache = <<>>
    /\ NoFs
    /\ NoIm

\* window.optimizedFetch(url, options).  method "" is options.method left
\* out.  The body of a response is JSON for a truthy value ("a", "b"), JSON
\* for a falsy value ("", as 0, false, null or "" are) or no JSON at all;
\* sessionStorage.setItem may throw when the storage is full.  out is the
\* call and where its answer came from.
OptimizedFetch ==
    \E url \in {"/content/news/index.json", "/content/news/latest.json"},
       method \in {"", "GET", "POST"},
       response \in {[resolved |-> FALSE, ok |-> FALSE, body |-> ""]}
                        \cup [resolved : {TRUE}, ok : BOOLEAN, body : {"a", "b", "", "not JSON"}],
       full \in BOOLEAN :
        LET isGet == method = "" \/ method = "GET"
            cached == getCachedResponse(session, url, now)
            truthy == cached # "null" /\ cached # ""
            cacheAPIResponse ==
                [u \in DOMAIN session \cup {url} |->
                    IF u = url THEN [data |-> response.body, timestamp |-> now]
                    ELSE session[u]]
        IN  /\ pc = "page"
            /\ IF isGet /\ truthy
               THEN /\ out' = [from |-> "cache", url |-> url, method |-> method,
                               ok |-> TRUE, data |-> cached]
                    /\ session' = session
               ELSE /\ out' = [from |-> "network", url |-> url, method |-> method,
                               ok |-> response.resolved /\ response.ok,
                               data |-> IF response.resolved THEN response.body ELSE "null"]
                    /\ session' = IF /\ response.resolved /\ response.ok /\ isGet
                                     /\ response.body # "not JSON" /\ ~full
                                  THEN cacheAPIResponse ELSE session
            /\ UNCHANGED <<txt, pc, fsVars, imVars, procs, cache, now>>

\* time passes
Tick ==
    /\ pc = "page"
    /\ now + maxAge \div 2 <= MaxTicks * maxAge
    /\ now' = now + maxAge \div 2
    /\ UNCHANGED <<txt, out, pc, fsVars, imVars, procs, cache, session>>

SpecPage == InitPage /\ [][OptimizedFetch \/ Tick]_vars

---------------------------------------------------------------------------
(* The claims *)

\* C1: a build that runs a second time in a row, with no change to the file
\* system in between, leaves the index document as the first run left it.
C1_IdempotentBuild ==
    [][(lastRun # "none" /\ lastRun' = lastRun) => index' = index]_vars

\* a command has run twice in a row and the index holds two records
C1_Witness ==
    /\ repeats = 2
    /\ lastRun = "rebuild"
    /\ index.exists
    /\ Len(index.entries) = 2

\* C2: after a build, the index holds exactly one record for every readable
\* .md file of the directory, whatever the validation of the unit said.
C2_IndexEverything ==
    (lastRun # "none" /\ mode = "rw") =>
        \A f \in FilenameSet :
            (dir[f].kind = "file" /\ endsWith(T(f), T(".md"))) =>
                /\ index.exists
                /\ Cardinality({i \in 1..Len(index.entries) :
                                    index.entries[i].filename.v = T(f)}) = 1

\* C3: in every index that a build wrote, the date of each record is greater
\* than or equal to the date of the next record, as strings.
C3_SortedByDateDescending ==
    index.exists =>
        \A i \in 1..(Len(index.entries) - 1) :
            localeCompare(dateKey(index.entries[i]), dateKey(index.entries[i + 1])) >= 0

\* C4: a run of the validator exits with zero exactly when no unit produced
\* a hard error and no fatal file-system condition occurred (the directory
\* could not be listed, the index could not be written, a unit file could
\* not be read).
C4_ExitStatus ==
    lastRun = "validate" =>
        LET noHardError == \A f \in DOMAIN report : report[f].errors = <<>>
            listed == {f \in FilenameSet :
                          dir[f].kind # "absent" /\ endsWith(toLowerCase(T(f)), T(".md"))}
            noFatal == /\ mode # "noread"
                       /\ ~(mode = "ro" /\ listed # {})
                       /\ \A f \in listed : dir[f].kind # "unreadable"
        IN  (exitCode = 0) <=> (noHardError /\ noFatal)

\* C5: a unit whose date is not a calendar date written YYYY-MM-DD gets the
\* hard error "date must be YYYY-MM-DD", the run exits nonzero, and the
\* unit is in the index all the same.
C5_DateValidation ==
    (lastRun = "validate" /\ mode = "rw") =>
        \A f \in DOMAIN report :
            LET parsed == parseFrontmatter(dir[f].raw)
                date == Get(parsed.yaml, T("date"))
                calendarDate ==
                    /\ date.t = "str"
                    /\ DATE_RE(date.v)
                    /\ NumAt(date.v, 6, 7) \in 1..12
                    /\ NumAt(date.v, 9, 10) \in
                            1..DaysInMonth(NumAt(date.v, 1, 4), NumAt(date.v, 6, 7))
            IN  (~cannotRead(dir[f]) /\ parsed.ok /\ ~calendarDate) =>
                    /\ \E i \in 1..Len(report[f].errors) :
                            report[f].errors[i] = "date must be YYYY-MM-DD"
                    /\ exitCode # 0
                    /\ \E i \in 1..Len(index.entries) : index.entries[i].filename.v = T(f)

\* C6: a unit whose file name has one of the two accepted shapes and names
\* another day than the date of the header gets a warning and no error for
\* it, and its record carries the date of the header.
C6_FilenameDateMismatch ==
    (lastRun = "validate" /\ mode = "rw") =>
        \A f \in DOMAIN report :
            LET name == T(f)
                parsed == parseFrontmatter(dir[f].raw)
                date == Get(parsed.yaml, T("date"))
                nameDate == IF DATE_RE(SubSeq(name, 1, 10)) THEN SubSeq(name, 1, 10)
                            ELSE SubSeq(name, 1, 4) \o <<"-">> \o SubSeq(name, 5, 6)
                                    \o <<"-">> \o SubSeq(name, 7, 8)
                mismatch == "filename date does not match frontmatter date"
            IN  (/\ ~cannotRead(dir[f]) /\ parsed.ok /\ FILENAME_RE(name)
                 /\ date.t = "str" /\ DATE_RE(date.v) /\ date.v # nameDate) =>
                    /\ \E i \in 1..Len(report[f].warnings) : report[f].warnings[i] = mismatch
                    /\ \A i \in 1..Len(report[f].errors) : report[f].errors[i] # mismatch
                    /\ \E i \in 1..Len(index.entries) :
                            /\ index.entries[i].filename.v = name
                            /\ dateKey(index.entries[i]) = date.v

\* C7: a unit with tags: [news, community] and a unit with
\* tags: "news, community" both get the tags list ["news", "community"] in
\* their records.
C7_TagNormalization ==
    (lastRun # "none" /\ index.exists) =>
        \A i \in 1..Len(index.entries) :
            LET f == CHOOSE g \in FilenameSet : T(g) = index.entries[i].filename.v
                tags == Get(parseFrontmatter(dir[f].raw).yaml, T("tags"))
            IN  (tags = Arr(<<T("news"), T("community")>>) \/ tags = Str(T("news, community")))
                    => /\ "tags" \in DOMAIN index.entries[i]
                       /\ index.entries[i].tags.v = <<T("news"), T("community")>>

\* C8: the slug of every record is the slug of the header when there is
\* one and slugify(title) otherwise, and its id is its date, a hyphen and
\* that slug; title X with date 2024-03-05 and no slug gives the id
\* 2024-03-05-x and the slug x.
C8_DerivedIdentity ==
    (lastRun # "none" /\ index.exists) =>
        \A i \in 1..Len(index.entries) :
            LET e == index.entries[i]
                f == CHOOSE g \in FilenameSet : T(g) = e.filename.v
                yaml == parseFrontmatter(dir[f].raw).yaml
                authored == Get(yaml, T("slug"))
                title == Get(yaml, T("title"))
                date == Get(yaml, T("date"))
                slug == IF "slug" \in DOMAIN e THEN String(e.slug) ELSE <<>>
                expected == IF Truthy(authored) THEN String(authored)
                            ELSE IF Truthy(title) THEN toSlug(String(title)) ELSE <<>>
            IN  /\ slug = expected
                /\ e.id.v = dateKey(e) \o <<"-">> \o slug
                /\ (title = Str(T("X")) /\ date = Str(T("2024-03-05")) /\ ~Truthy(authored))
                        => (e.id.v = T("2024-03-05-x") /\ slug = T("x"))

\* C9 as claimed: when the first paragraph of the body, as plain text, is
\* longer than 180 characters the excerpt has at most 181 characters, ends
\* with the ellipsis and stops at the end of a word, never inside one; a
\* candidate of at most 180 characters is the excerpt as it stands.
C9_WordBoundaryAlways ==
    pc = "excerpt" =>
        LET candidate == bodyPlainOf(firstParaOf(bodyOf(txt)))
            kept == Len(out) - 1
        IN  IF Len(candidate) <= EXCERPT_MAX THEN out = candidate
            ELSE /\ Len(out) <= EXCERPT_MAX + 1
                 /\ out[Len(out)] = Ellipsis
                 /\ SubSeq(out, 1, kept) = SubSeq(candidate, 1, kept)
                 /\ candidate[kept + 1] = " "

\* C9 as amended: when the candidate (the first paragraph as plain text) is
\* longer than 180 characters the excerpt has at most 181 characters, ends
\* with the ellipsis, and keeps the candidate up to its last space within
\* the first 180 characters when that space lies after index 108, and the
\* first 180 characters otherwise; a candidate of at most 180 characters is
\* the excerpt as it stands.
C9_CutAtSpaceOrLimit ==
    pc = "excerpt" =>
        LET candidate == bodyPlainOf(firstParaOf(bodyOf(txt)))
            kept == Len(out) - 1
            spaces == {i \in 1..EXCERPT_MAX :
                          candidate[i] = " " /\ 10 * (i - 1) > 6 * EXCERPT_MAX}
        IN  IF Len(candidate) <= EXCERPT_MAX THEN out = candidate
            ELSE /\ Len(out) <= EXCERPT_MAX + 1
                 /\ out[Len(out)] = Ellipsis
                 /\ SubSeq(out, 1, kept) = SubSeq(candidate, 1, kept)
                 /\ kept = IF spaces = {} THEN EXCERPT_MAX ELSE Max(spaces) - 1

\* an excerpt that was cut at a space after index 108: 109 letters and the ellipsis
C9_Witness ==
    /\ pc = "excerpt"
    /\ Len(bodyPlainOf(firstParaOf(bodyOf(txt)))) > EXCERPT_MAX
    /\ Len(out) = 110
    /\ out[110] = Ellipsis

\* C10: slugify(text) is empty or has the shape [a-z0-9]+(-[a-z0-9]+)*,
\* slugify of a slug is that slug, and slugify of the title
\* "\u010Cudovita Novica!" is cudovita-novica.
C10_SlugShape ==
    /\ pc \in {"slug", "again"} => (out = <<>> \/ SLUG_RE(out))
    /\ pc = "again" => out = txt
    /\ (pc = "slug" /\ txt = CudovitaNovica) => out = T("cudovita-novica")

\* the title of the example has been slugified, and its slug once more
C10_Witness ==
    /\ pc = "again"
    /\ txt = T("cudovita-novica")
    /\ out = T("cudovita-novica")

\* C11: when two units of the directory have the same slug (not empty),
\* authored or derived, a run of the validator flags the later one by file name with a
\* diagnostic of its own, and the index holds a record for each of the two.
C11_SlugUniqueness ==
    (lastRun = "validate" /\ mode = "rw") =>
        LET slugOf(f) ==
                LET yaml == parseFrontmatter(dir[f].raw).yaml
                IN  IF Truthy(Get(yaml, T("slug"))) THEN String(Get(yaml, T("slug")))
                    ELSE toSlug(String(Or(Get(yaml, T("title")), Str(<<>>))))
            alone(f, clock) ==
                [errors |-> MainUnits[f][dir[f]][clock].errors,
                 warnings |-> MainUnits[f][dir[f]][clock].warnings]
            indexed(f) == \E k \in 1..Len(index.entries) : index.entries[k].filename.v = T(f)
        IN  \A i, j \in 1..Len(Filenames) :
                LET f == Filenames[i]
                    g == Filenames[j]
                IN  (/\ i < j
                     /\ f \in DOMAIN report /\ g \in DOMAIN report
                     /\ ~cannotRead(dir[f]) /\ ~cannotRead(dir[g])
                     /\ slugOf(f) # <<>> /\ slugOf(f) = slugOf(g)) =>
                        /\ \A clock \in Clocks : report[g] # alone(g, clock)
                        /\ index.exists /\ indexed(f) /\ indexed(g)

\* C12: a build that finds the content directory unlistable ends with a
\* fatal condition (a nonzero exit status) and leaves the index document
\* as it was.
C12_FatalListingFailure ==
    [][(mode = "noread" /\ lastRun' # "none") => (exitCode' # 0 /\ index' = index)]_vars

\* C13: after a build that met no fatal condition, the index lists no unit
\* whose file is not in the directory any more, also when the directory
\* holds no unit at all.
C13_WholesaleRegeneration ==
    (lastRun # "none" /\ mode = "rw" /\ index.exists) =>
        \A i \in 1..Len(index.entries) :
            \A f \in FilenameSet :
                T(f) = index.entries[i].filename.v => dir[f].kind # "absent"

\* C14: no record of a written index has a field that is the empty string
\* or the empty list.
C14_EmptyFieldsOmitted ==
    index.exists =>
        \A i \in 1..Len(index.entries) :
            \A k \in DOMAIN index.entries[i] :
                index.entries[i][k].t = "num" \/ index.entries[i][k].v # <<>>

\* C15: in a run in which some unit has an error (it cannot be read, it has
\* no frontmatter, it breaks a hard rule), every other unit file is
\* validated and the index is written with the record of every other unit
\* that the builder makes a record of.
C15_SiblingIsolation ==
    /\ (lastRun = "validate" /\ mode = "rw") =>
            \A f \in FilenameSet :
                (/\ dir[f].kind # "absent" /\ endsWith(toLowerCase(T(f)), T(".md"))
                 /\ \E g \in DOMAIN report : g # f /\ report[g].errors # <<>>) =>
                    /\ f \in DOMAIN report
                    /\ \E clock \in Clocks :
                            /\ report[f].errors = MainUnits[f][dir[f]][clock].errors
                            /\ report[f].warnings = MainUnits[f][dir[f]][clock].warnings
                    /\ index.exists
                    /\ ~cannotRead(dir[f]) =>
                            Cardinality({k \in 1..Len(index.entries) :
                                            index.entries[k].filename.v = T(f)}) = 1
    /\ (lastRun = "rebuild" /\ mode = "rw") =>
            /\ index.exists
            /\ \A f \in FilenameSet :
                    (/\ dir[f].kind # "absent" /\ endsWith(T(f), T(".md"))
                     /\ CliUnits[f][dir[f]].post # <<>>
                     /\ \E g \in FilenameSet \ {f} :
                            /\ dir[g].kind # "absent" /\ endsWith(T(g), T(".md"))
                            /\ CliUnits[g][dir[g]].post = <<>>) =>
                        \E k \in 1..Len(index.entries) :
                            index.entries[k] = CliUnits[f][dir[f]].post[1]

\* the first unit of the directory cannot be read, the next one is fine, and
\* the validator has written its record
C15_Witness ==
    /\ lastRun = "validate"
    /\ dir[PostName].kind = "unreadable"
    /\ dir[XName].kind = "file"
    /\ report[PostName].errors = <<"Cannot read">>
    /\ report[XName].errors = <<>>
    /\ index.exists
    /\ \E k \in 1..Len(index.entries) : index.entries[k].filename.v = T(XName)

\* C16: a unit whose text has no opening or no closing header marker gets
\* the single hard error "missing frontmatter block", no warning of the
\* header rules (only those of the body), and a record in the index.
C16_MissingFrontmatter ==
    (lastRun = "validate" /\ mode = "rw") =>
        \A f \in DOMAIN report :
            LET raw == dir[f].raw
                opened == startsWith(raw, T("---\n"))
                closed == indexOf(raw, T("\n---"), 5) > 0
            IN  (~cannotRead(dir[f]) /\ (~opened \/ ~closed)) =>
                    /\ report[f].errors = <<"missing frontmatter block">>
                    /\ report[f].warnings = validateContent(raw)
                    /\ index.exists
                    /\ \E k \in 1..Len(index.entries) :
                            /\ index.entries[k].filename.v = T(f)
                            /\ index.entries[k].id.v = T("-")

\* a header that is opened and never closed has been validated and indexed
C16_Witness ==
    /\ lastRun = "validate"
    /\ dir[NotesName] = File(T("---\ntitle: X"))
    /\ report[NotesName].errors = <<"missing frontmatter block">>
    /\ index.exists
    /\ \E k \in 1..Len(index.entries) : index.entries[k].filename.v = T(NotesName)

C18_HeroImagePath ==
    (lastRun = "validate" /\ mode = "rw") =>
        \A f \in DOMAIN report :
            LET parsed == parseFrontmatter(dir[f].raw)
                bad(key) == /\ Truthy(Get(parsed.yaml, T(key)))
                            /\ ~HERO_RE(String(Get(parsed.yaml, T(key))))
            IN  (~cannotRead(dir[f]) /\ parsed.ok) =>
                    /\ (bad("image") \/ bad("hero")) => report[f].errors # <<>>
                    /\ report[f].errors = <<>> =>
                            \A k \in 1..Len(index.entries) :
                                (/\ index.entries[k].filename.v = T(f)
                                 /\ "hero" \in DOMAIN index.entries[k])
                                    => HERO_RE(index.entries[k].hero.v)

\* C19: a bundle whose unit file has the name of a file of the content
\* directory ends as failed (partially failed) and the file stays as it
\* was; a bundle whose unit file has a free name is merged whatever became
\* of the bundles before it; the importer can always go on with the current
\* bundle until every bundle has its outcome, which is when the index is
\* rebuilt, once.
C19_ImportCollision ==
    /\ [][\A i \in 1..Len(bundles) :
            LET unit == bundles[i].payload
            IN  (/\ unit.kind = "unit"
                 /\ bundles[i].state = "extracted"
                 /\ bundles'[i].state # "extracted") =>
                    IF dir[unit.name].kind # "absent"
                    THEN bundles'[i].state = "partiallyFailed" /\ dir' = dir
                    ELSE /\ bundles'[i].state = IF unit.images \cap uploads = {}
                                                THEN "merged" ELSE "partiallyFailed"
                         /\ dir' = [dir EXCEPT ![unit.name] = File(unit.raw)]]_vars
    /\ [](pc = "import" =>
            \/ ENABLED (ExtractBundle \/ MergeBundle)
            \/ \A i \in 1..Len(bundles) :
                    \/ bundles[i].state \in {"failed", "partiallyFailed", "merged"}
                    \/ bundles[i].skipped)
    /\ [](pc = "done" => rebuilds = 1)

\* the first bundle of a batch collided with a file that is still as it was,
\* the second one was merged and indexed
C19_Witness ==
    /\ pc = "done"
    /\ Len(bundles) = 2
    /\ bundles[1].state = "partiallyFailed"
    /\ dir[bundles[1].payload.name].kind = "file"
    /\ dir[bundles[1].payload.name].raw # bundles[1].payload.raw
    /\ bundles[2].state = "indexed"
    /\ dir[bundles[2].payload.name].raw = bundles[2].payload.raw
    /\ index.exists

\* C20: in an import run the index builder is invoked once, after every
\* bundle of the batch has reached its merge outcome, never between two
\* bundles.
C20_OneRebuildPerBatch ==
    /\ rebuilds <= 1
    /\ rebuilds = 1 <=> pc = "done"
    /\ rebuilds = 1 => \A i \in 1..Len(bundles) :
                            \/ bundles[i].state \in {"failed", "partiallyFailed", "indexed"}
                            \/ bundles[i].state = "extracted" /\ bundles[i].skipped
    /\ \A i \in 1..Len(bundles) : bundles[i].state = "indexed" => index.exists

\* an import run over two bundles has merged both and rebuilt the index once
C20_Witness ==
    /\ pc = "done"
    /\ rebuilds = 1
    /\ Len(bundles) = 2
    /\ bundles[1].state = "indexed"
    /\ bundles[2].state = "indexed"
    /\ Len(index.entries) = 2

\* C21: the state of a bundle only ever changes along
\* pending -> extracted -> merged -> indexed, pending -> failed or
\* extracted -> partiallyFailed, and no step of the import takes a file out
\* of the content directory or the image directory or changes one that is
\* there.
C21_BundleStateMachine ==
    [][/\ \A i \in 1..Len(bundles) :
            bundles'[i].state # bundles[i].state =>
                <<bundles[i].state, bundles'[i].state>> \in
                    {<<"pending", "extracted">>, <<"extracted", "merged">>,
                     <<"merged", "indexed">>, <<"pending", "failed">>,
                     <<"extracted", "partiallyFailed">>}
       /\ \A f \in FilenameSet : dir[f].kind # "absent" => dir'[f] = dir[f]
       /\ uploads \subseteq uploads']_vars

\* the import is over; the unit file of the first bundle was moved before
\* its image collided and is still in the content directory, the second
\* bundle went all the way to indexed
C21_Witness ==
    /\ pc = "done"
    /\ Len(bundles) = 2
    /\ bundles[1].state = "partiallyFailed"
    /\ bundles[1].payload.images # {}
    /\ dir[bundles[1].payload.name] = File(bundles[1].payload.raw)
    /\ bundles[2].state = "indexed"
    /\ bundles[2].payload.name # bundles[1].payload.name

\* C22: the merge of a bundle that holds no unit file leaves the content
\* directory and the image directory as they were, and the bundle ends as
\* skipped.
C22_SkippedWhole ==
    [][\A i \in 1..Len(bundles) :
            (/\ bundles[i].payload.kind = "empty"
             /\ bundles'[i] # bundles[i]) =>
                /\ bundles[i].state = "pending" \/ bundles'[i].skipped
                /\ bundles'[i].state = "extracted"
                /\ dir' = dir
                /\ uploads' = uploads]_vars

\* a bundle that holds an image and no unit file was skipped, and the image
\* is not in the image directory
C22_Witness ==
    /\ \E i \in 1..Len(bundles) :
            /\ bundles[i].skipped
            /\ bundles[i].payload.images = {"p.jpg"}
    /\ uploads = {}

\* C23: the slug that the command slug <title> prints, which is the slug
\* create gives a new unit, is slugify(title).
C23_OneSlugDerivation ==
    pc = "printed" => out = toSlug(txt)

\* C24: when rebuild-index runs right after validate, or validate right
\* after rebuild-index, with no change to the file system in between, the
\* second command leaves the records of the index document, their fields
\* and their order as the first one wrote them.
C24_OneIndexPerContentState ==
    [][(lastRun # "none" /\ lastRun' # "none" /\ lastRun' # lastRun)
            => index'.entries = index.entries]_vars

C26_CreateNeverOverwrites ==
    [][(lastRun' = "create" /\ txt' # <<>>) =>
            LET f == CHOOSE g \in FilenameSet : T(g) = txt'
            IN  IF dir[f].kind # "absent"
                THEN /\ exitCode' # 0
                     /\ dir' = dir
                     /\ uploads' = uploads
                     /\ index' = index
                ELSE mode = "rw" =>
                     /\ exitCode' = 0
                     /\ dir'[f].kind = "file"
                     /\ \A g \in FilenameSet \ {f} : dir'[g] = dir[g]
                     /\ index'.exists
                     /\ \E i \in 1..Len(index'.entries) :
                            index'.entries[i].filename.v = txt']_vars

\* create has written a unit and rebuilt the index, and a second create of
\* the same name has ended with the error and left the file and the index
C26_Witness ==
    /\ lastRun = "create"
    /\ out = "Post already exists"
    /\ exitCode = 1
    /\ index.exists
    /\ \E f \in FilenameSet :
            /\ T(f) = txt
            /\ dir[f].kind = "file"
            /\ startsWith(dir[f].raw, T("---\ntitle: \"X\"\ndate: \"2024-06-15\"\nslug: \"x\""))

\* C27: at most one importer process runs at any time; an importer is
\* started only when none is running and, unless it is the first, only
\* from the end of the loop body, which is reached only from the end of
\* sleep 5, which is entered only when the importer has exited; the script
\* ends only when there is no interpreter, never after a run; and after a
\* run that failed the importer is started again.
C27_SequentialWatchLoop ==
    /\ [](procs <= 1)
    /\ [][/\ procs' > procs => (procs = 0 /\ (pc = "done" \/ (pc = "while" /\ out = <<>>)))
          /\ (pc' = "done" /\ pc # "done") => pc = "sleep"
          /\ (pc' = "sleep" /\ pc # "sleep") => (pc = "importer" /\ procs' = 0)]_vars
    /\ [](pc = "exit" => (out = <<>> /\ txt = <<>>))
    /\ \A n \in 1..(MaxPolls - 1) :
            (Len(out) = n /\ out[n] # 0 /\ pc = "sleep") ~> (Len(out) = n /\ procs = 1)

\* the importer runs for the third time after two runs that failed
C27_Witness ==
    /\ pc = "importer"
    /\ procs = 1
    /\ out = <<1, 2>>

\* C28: every response that is in the cache of the service worker has the
\* status 200.
C28_OnlySuccessfulResponsesCached ==
    pc = "sw" => \A k \in DOMAIN cache : cache[k] = 200

\* C29: a call of optimizedFetch is answered from the session cache only
\* when its method is GET (or left out) and the entry of its url was stored
\* less than maxAge before, and then with the data of that entry; every
\* other call goes to the network; and the session cache changes only by
\* an ok response to a GET call being stored under the url of the call
\* with the time of the call.
C29_FreshGetOnly ==
    [][now' = now =>
        /\ out'.from \in {"cache", "network"}
        /\ out'.from = "cache" =>
                /\ out'.method \in {"", "GET"}
                /\ out'.url \in DOMAIN session
                /\ now - session[out'.url].timestamp < maxAge
                /\ out'.data = session[out'.url].data
                /\ session' = session
        /\ session' # session =>
                /\ out'.from = "network"
                /\ out'.method \in {"", "GET"}
                /\ out'.ok
                /\ DOMAIN session' = DOMAIN session \cup {out'.url}
                /\ session'[out'.url] = [data |-> out'.data, timestamp |-> now]
                /\ \A u \in DOMAIN session \ {out'.url} : session'[u] = session[u]]_vars

\* a call has been answered from an entry that is half of maxAge old, and
\* the entry of the other url is too old to be used
C29_Witness ==
    /\ out.from = "cache"
    /\ out.url = "/content/news/index.json"
    /\ now - session[out.url].timestamp = maxAge \div 2
    /\ "/content/news/latest.json" \in DOMAIN session
    /\ now - session["/content/news/latest.json"].timestamp >= maxAge

-----------------------------------------------------------------------------
(* The class MarkdownConverter (unnamed/part_015) *)

\* most tokens in a markdown text of the conversion runs
MaxTokens == 3

\* escapeHtml(text)
escapeHtml(text) ==
    Flatten([i \in 1..Len(text) |->
        CASE text[i] = "&"  -> T("&amp;")
          [] text[i] = "<"  -> T("&lt;")
          [] text[i] = ">"  -> T("&gt;")
          [] text[i] = "\"" -> T("&quot;")
          [] text[i] = "'"  -> T("&#039;")
          [] OTHER          -> <<text[i]>>])

\* the template literal {{CODE_BLOCK_${index}}}
placeholder(idx) == T("{{CODE_BLOCK_") \o NumText(idx) \o T("}}")

\* protectCodeBlocks(text): the text with every fenced block and every inline
\* code replaced by its placeholder, and this.codeBlocks after the call of a
\* converter whose this.codeBlocks was empty
protectCodeBlocks(text) ==
    LET fence == <<Backtick, Backtick, Backtick>>
        word  == LowerSet \cup UpperSet \cup DigitSet \cup {"_"}
        RECURSIVE fenced(_, _)
        \* .replace(/FFF(\w*)\n([\s\S]*?)FFF/g, ...) where F is the backtick
        fenced(s, blocks) ==
            LET C == {i \in 1..(Len(s) - 2) :
                        /\ SubSeq(s, i, i + 2) = fence
                        /\ LET e == runEnd(s, i + 3, word)
                           IN  e <= Len(s) /\ s[e] = "\n" /\ indexOf(s, fence, e + 1) > 0}
            IN  IF C = {} THEN [text |-> s, codeBlocks |-> blocks]
                ELSE LET i == Min(C)
                         e == runEnd(s, i + 3, word)
                         j == indexOf(s, fence, e + 1)
                         lang == SubSeq(s, i + 3, e - 1)
                         code == SubSeq(s, e + 1, j - 1)
                         langClass == IF lang # <<>> THEN T(" language-") \o lang ELSE <<>>
                         html == T("<pre class=\"bg-gray-900 text-gray-100 p-4 rounded-lg overflow-x-auto my-4\"><code class=\"block")
                                    \o langClass \o T("\">") \o escapeHtml(trim(code)) \o T("</code></pre>")
                         rest == fenced(SubSeq(s, j + 3, Len(s)), Append(blocks, html))
                     IN  [text |-> SubSeq(s, 1, i - 1) \o placeholder(Len(blocks)) \o rest.text,
                          codeBlocks |-> rest.codeBlocks]
        RECURSIVE inline(_, _)
        \* .replace(/F([^F]+)F/g, ...)
        inline(s, blocks) ==
            LET i == indexOf(s, <<Backtick>>, 1)
                j == nextOf(s, i + 1, {Backtick})
            IN  IF i = 0 THEN [text |-> s, codeBlocks |-> blocks]
                ELSE IF j > i + 1 /\ j <= Len(s)
                THEN LET html == T("<code class=\"bg-gray-100 px-2 py-1 rounded text-sm font-mono text-gray-800\">")
                                    \o escapeHtml(SubSeq(s, i + 1, j - 1)) \o T("</code>")
                         rest == inline(SubSeq(s, j + 1, Len(s)), Append(blocks, html))
                     IN  [text |-> SubSeq(s, 1, i - 1) \o placeholder(Len(blocks)) \o rest.text,
                          codeBlocks |-> rest.codeBlocks]
                ELSE LET rest == inline(SubSeq(s, i + 1, Len(s)), blocks)
                     IN  [text |-> SubSeq(s, 1, i) \o rest.text, codeBlocks |-> rest.codeBlocks]
        afterFenced == fenced(text, <<>>)
    IN  inline(afterFenced.text, afterFenced.codeBlocks)

\* processInlineElements(text): bold, then italic.  The rules for
\* strikethrough, links and bare URLs need a tilde, a bracket or "http",
\* which no text of the conversion runs holds.
processInlineElements(text) ==
    LET RECURSIVE replaceDelimited(_, _, _, _)
        \* .replace(/D([^d]+)D/g, open + '$1' + close), where the delimiter D is
        \* the unit d once or twice
        replaceDelimited(s, delim, open, close) ==
            LET n == Len(delim)
                i == indexOf(s, delim, 1)
                j == nextOf(s, i + n, {delim[1]})
            IN  IF i = 0 THEN s
                ELSE IF j > i + n /\ j + n - 1 <= Len(s) /\ SubSeq(s, j, j + n - 1) = delim
                THEN SubSeq(s, 1, i - 1) \o open \o SubSeq(s, i + n, j - 1) \o close
                        \o replaceDelimited(SubSeq(s, j + n, Len(s)), delim, open, close)
                ELSE SubSeq(s, 1, i) \o replaceDelimited(SubSeq(s, i + 1, Len(s)), delim, open, close)
        strong == T("<strong class=\"font-bold\">")
        em     == T("<em class=\"italic\">")
        bold1  == replaceDelimited(text, T("**"), strong, T("</strong>"))
        bold2  == replaceDelimited(bold1, T("__"), strong, T("</strong>"))
        ital1  == replaceDelimited(bold2, T("*"), em, T("</em>"))
    IN  replaceDelimited(ital1, T("_"), em, T("</em>"))

\* processHeaders(text): a line of one to four "#" and a space is a header;
\* its id is slugify(content)
processHeaders(text) ==
    LET lines == split(text, "\n")
        word  == LowerSet \cup UpperSet \cup DigitSet \cup {"_"}
        slugify(content) ==
            LET kept == SelectSeq(toLowerCase(content), LAMBDA c : c \in word \cup SpaceSet \cup {"-"})
            IN  trim(replaceRuns(replaceRuns(kept, SpaceSet, "-"), {"-"}, "-"))
        class(n) ==
            CASE n = 4 -> T("text-lg font-semibold mt-4 mb-2 text-gray-800")
              [] n = 3 -> T("text-xl font-semibold mt-6 mb-3 text-gray-800")
              [] n = 2 -> T("text-2xl font-bold mt-8 mb-4 text-gray-900 border-b border-gray-200 pb-2")
              [] n = 1 -> T("text-3xl font-bold mt-8 mb-4 text-gray-900")
        header(line) ==
            LET n == runEnd(line, 1, {"#"}) - 1
                content == SubSeq(line, n + 2, Len(line))
            IN  IF n \in 1..4 /\ n < Len(line) /\ line[n + 1] = " "
                THEN T("<h") \o <<DigitOf(n)>> \o T(" id=\"") \o slugify(content)
                        \o T("\" class=\"") \o class(n) \o T("\">")
                        \o processInlineElements(content)
                        \o T("</h") \o <<DigitOf(n)>> \o T(">")
                ELSE line
    IN  join([k \in 1..Len(lines) |-> header(lines[k])], <<"\n">>)

\* processLists(text) with buildList.  Every list is unordered: the pattern
\* of an ordered item needs a ".", which no text of the conversion runs holds.
processLists(text) ==
    LET lines == split(text, "\n")
        \* group 2 of line.match(/^(\s*)[\*\-\+]\s+(.+)$/), '' when no match
        item(line) ==
            LET m == runEnd(line, 1, SpaceSet)
                c == runEnd(line, m + 1, SpaceSet)
            IN  IF m > Len(line) \/ line[m] \notin {"*", "-", "+"} THEN <<>>
                ELSE IF c = m + 1 THEN <<>>
                ELSE IF c <= Len(line) THEN SubSeq(line, c, Len(line))
                ELSE IF c - (m + 1) >= 2 THEN <<line[Len(line)]>>
                ELSE <<>>
        buildList(items) ==
            T("<ul class=\"list-disc list-inside mb-4 ml-4 space-y-1\">\n")
                \o join([k \in 1..Len(items) |->
                            T("<li class=\"text-gray-700 leading-relaxed\">") \o items[k] \o T("</li>")],
                        <<"\n">>)
                \o T("\n</ul>")
        closed(listItems, result) ==
            IF listItems # <<>> THEN Append(result, buildList(listItems)) ELSE result
        RECURSIVE walk(_, _, _)
        walk(k, listItems, result) ==
            IF k > Len(lines) THEN closed(listItems, result)
            ELSE IF item(lines[k]) # <<>>
            THEN walk(k + 1, Append(listItems, processInlineElements(item(lines[k]))), result)
            ELSE walk(k + 1, <<>>, Append(closed(listItems, result), lines[k]))
    IN  join(walk(1, <<>>, <<>>), <<"\n">>)

\* processParagraphs(text)
processParagraphs(text) ==
    LET lines == split(text, "\n")
        wrapped(content) ==
            T("<p class=\"mb-4 text-gray-700 leading-relaxed\">")
                \o processInlineElements(content) \o T("</p>")
        contentOf(paragraph) == trim(join(paragraph, <<" ">>))
        flushed(paragraph, result) ==
            IF paragraph = <<>> THEN result
            ELSE IF ~startsWith(contentOf(paragraph), <<"<">>) /\ contentOf(paragraph) # <<>>
            THEN Append(result, wrapped(contentOf(paragraph)))
            ELSE Append(result, contentOf(paragraph))
        RECURSIVE walk(_, _, _)
        walk(k, paragraph, result) ==
            IF k > Len(lines) THEN flushed(paragraph, result)
            ELSE IF trim(lines[k]) = <<>> THEN walk(k + 1, <<>>, flushed(paragraph, result))
            ELSE IF startsWith(lines[k], <<"<">>)
            THEN walk(k + 1, <<>>,
                      Append(IF paragraph = <<>> THEN result
                             ELSE Append(result, wrapped(contentOf(paragraph))),
                             lines[k]))
            ELSE walk(k + 1, Append(paragraph, lines[k]), result)
    IN  join(walk(1, <<>>, <<>>), <<"\n">>)

\* restoreProtectedContent(text) of a converter with the given this.codeBlocks
\* and no blockquotes: the first occurrence of each placeholder becomes its
\* code.  No code of the conversion runs holds a "$", which String.replace
\* would read as a replacement pattern.
restoreProtectedContent(text, codeBlocks) ==
    LET RECURSIVE each(_, _)
        each(s, idx) ==
            IF idx >= Len(codeBlocks) THEN s
            ELSE LET i == indexOf(s, placeholder(idx), 1)
                 IN  each(IF i = 0 THEN s
                          ELSE SubSeq(s, 1, i - 1) \o codeBlocks[idx + 1]
                                  \o SubSeq(s, i + Len(placeholder(idx)), Len(s)),
                          idx + 1)
    IN  each(text, 0)

\* convert(markdown) of a converter, which resets this.codeBlocks first.
\* processBlockquotes, processImages, processHorizontalRules and processTables
\* return their argument on the texts of the conversion runs, which hold no
\* ">", "!", "|", and no line "---", "***" or "___"; the clean-up of empty
\* paragraphs likewise, since processParagraphs wraps non-empty content only.
convert(markdown) ==
    IF markdown = <<>> THEN <<>>
    ELSE LET protected == protectCodeBlocks(markdown)
             html == restoreProtectedContent(
                        processParagraphs(processLists(processHeaders(protected.text))),
                        protected.codeBlocks)
             \* .replace(/\n{3,}/g, '\n\n')
             marked == [i \in 1..Len(html) |->
                          IF i > 2 /\ html[i] = "\n" /\ html[i-1] = "\n" /\ html[i-2] = "\n"
                          THEN "" ELSE html[i]]
         IN  trim(SelectSeq(marked, LAMBDA c : c # ""))

\* A converter has been constructed and a markdown text is at hand.  The text
\* is made of up to MaxTokens tokens: an inline code with a character to
\* escape, a fenced block whose code looks like emphasis, emphasis, a header
\* marker, a list marker, a letter, the "<" that makes processParagraphs take
\* a line for html, a space, a line break.
InitMarkdown ==
    /\ LET MdTokens ==
               { <<Backtick>> \o T("a<") \o <<Backtick>>,
                 <<Backtick, Backtick, Backtick>> \o T("\n*a*\n") \o <<Backtick, Backtick, Backtick>>,
                 T("*a*"), T("# "), T("- "), T("a"), T("<"), T(" "), T("\n") }
       IN  txt \in {Flatten(ts) : ts \in UNION {[1..k -> MdTokens] : k \in 0..MaxTokens}}
    /\ out = [html |-> <<>>, codeBlocks |-> <<>>]
    /\ pc = "markdown"
    /\ NoFs
    /\ NoIm
    /\ NoEnv

\* converter.convert(txt): the returned html and this.codeBlocks after the call
Convert ==
    /\ pc = "markdown"
    /\ out' = [html |-> convert(txt), codeBlocks |-> protectCodeBlocks(txt).codeBlocks]
    /\ pc' = "converted"
    /\ UNCHANGED <<txt, fsVars, imVars, envVars>>

SpecMarkdown == InitMarkdown /\ [][Convert]_vars

\* C30: after convert, the html of every fenced block and inline code that
\* protectCodeBlocks took out of the text is in the returned html as it was
\* generated, untouched by the header, list, paragraph and inline rules, and
\* no {{CODE_BLOCK_n}} placeholder is left in it.
C30_CodeProtected ==
    pc = "converted" =>
        /\ \A k \in 1..Len(out.codeBlocks) : indexOf(out.html, out.codeBlocks[k], 1) > 0
        /\ indexOf(out.html, T("{{CODE_BLOCK_"), 1) = 0

=============================================================================
